---- MODULE Spec2Model ----
(***************************************************************************)
(* GreenHEART iron techno-economics: run_iron_full_model and the Rosner    *)
(* cost and finance models it drives.                                      *)
(*                                                                         *)
(* Python dicts are functions from key strings (a missing key is a key     *)
(* outside DOMAIN), objects are records of their attributes, floats are    *)
(* exact rationals [n, d] in lowest terms, and an uncaught exception ends  *)
(* the call (pc = "raised", err = the exception type): nothing in the      *)
(* modelled code catches an exception.                                     *)
(***************************************************************************)
EXTENDS Integers, Sequences, FiniteSets, TLC

\* ------------------------------------------------------------ bounds ----
\* lcoh inputs are 1..MaxLcoh ($/kg)
MaxLcoh == 2
\* plant capacities are the squares r*r, r in 2..MaxCapacityRoot+1
MaxCapacityRoot == 1
\* linear coefficients of capital items are 1..MaxLin
MaxLin == 2

\* ------------------------------------------------- exact arithmetic ----
Abs(x) == IF x < 0 THEN -x ELSE x

RECURSIVE GCD(_, _)
GCD(a, b) == IF b = 0 THEN a ELSE GCD(b, a % b)

\* the rational n/d in lowest terms with a positive denominator
R(n, d) ==
    LET g == GCD(Abs(n), Abs(d))
        s == IF d < 0 THEN -1 ELSE 1
    IN  [n |-> s * (n \div g), d |-> s * (d \div g)]

RInt(i) == [n |-> i, d |-> 1]

RMul(a, b) ==
    LET g1 == GCD(Abs(a.n), b.d)
        g2 == GCD(Abs(b.n), a.d)
    IN  IF a.n = 0 \/ b.n = 0 THEN RInt(0)
        ELSE [n |-> (a.n \div g1) * (b.n \div g2), d |-> (a.d \div g2) * (b.d \div g1)]

RDiv(a, b) == RMul(a, IF b.n < 0 THEN [n |-> -b.d, d |-> -b.n] ELSE [n |-> b.d, d |-> b.n])

RAdd(a, b) ==
    LET g == GCD(a.d, b.d)
        l == (a.d \div g) * b.d
    IN  R(a.n * (l \div a.d) + b.n * (l \div b.d), l)

RECURSIVE IPow(_, _)
IPow(x, k) == IF k = 0 THEN 1 ELSE x * IPow(x, k - 1)

\* integer square root of a perfect square
ISqrt(x) == CHOOSE s \in 0..x : s * s = x

\* base ** e for a rational base and an exponent e = k or k/2, k >= 0
\* (a half-integer exponent needs a base whose terms are perfect squares)
RPow(base, e) ==
    IF e.d = 1 THEN [n |-> IPow(base.n, e.n), d |-> IPow(base.d, e.n)]
    ELSE [n |-> IPow(ISqrt(base.n), e.n), d |-> IPow(ISqrt(base.d), e.n)]

\* ------------------------------------------------------ Python bits ----
None == [none |-> TRUE]

\* truth value of a str: every non-empty string is true
Truthy(s) == s # ""

Technologies == {"h2_dri", "ng_dri", "h2_eaf", "ng_eaf"}

\* -------------------------------------------------------- variables ----
VARIABLES
    entry,              \* the function the caller invoked
    pc,                 \* position in the code
    err,                \* type of the exception that ended the call, or ""
    stages,             \* model mains invoked so far, in order
    greenheart_config,  \* the caller's configuration dict
    iron_config,        \* run_iron_full_model's deep copy of its 'iron' entry
    config,             \* the config object handed to the running stage
    iron_performance,   \* IronPerformanceModelOutputs
    iron_cost,          \* IronCostModelOutputs
    iron_finance,       \* IronFinanceModelOutputs
    returned,           \* value returned to the caller
    tables,             \* the csv tables on disk
    cm,                 \* locals of cost_model.main
    fm,                 \* locals of finance_model.main
    pf_calls,           \* calls made on the ProFAST engine, in order
    model_outputs       \* what the stage's main returned to its run_* wrapper

vars == <<entry, pc, err, stages, greenheart_config, iron_config, config,
          iron_performance, iron_cost, iron_finance, returned, tables, cm, fm,
          pf_calls, model_outputs>>

Raise(e) == pc' = "raised" /\ err' = e

\* ----------------------------------------------------------- inputs ----
LcohValues == {RInt(i) : i \in 1..MaxLcoh}

\* d with key k bound to v / d without key k
DictSet(d, k, v) == (k :> v) @@ d
DictDel(d, k) == [x \in DOMAIN d \ {k} |-> d[x]]

\* model_locations.yaml: the default module and files of each stage
RosnerPerformance == "greenheart.simulation.technologies.iron.Rosner.perf_model"
RosnerCost == "greenheart.simulation.technologies.iron.Rosner.cost_model"
RosnerFinance == "greenheart.simulation.technologies.iron.Rosner.finance_model"
model_locs ==
    [performance |-> [Rosner |-> [model |-> RosnerPerformance,
                                  inputs |-> "Rosner/perf_inputs.csv",
                                  coeffs |-> "Rosner/perf_coeffs.csv"]],
     cost |-> [Rosner |-> [model |-> RosnerCost,
                           inputs |-> "Rosner/cost_inputs.csv",
                           coeffs |-> "Rosner/cost_coeffs.csv"]],
     finance |-> [Rosner |-> [model |-> RosnerFinance]]]

\* a stage module supplied by the caller through model_fp
CustomModule == "secure.custom_model"

ModelDict(fp) ==
    [name |-> "Rosner", model_fp |-> fp, inputs_fp |-> "", coeffs_fp |-> "",
     refit_coeffs |-> FALSE]

SiteDict == [name |-> "site1"]

\* financial_assumptions dicts, as the list of their items in insertion order
FinancialAssumptions ==
    {<<<<"total income tax rate", R(1, 4)>>, <<"capacity", RInt(1)>>,
       <<"general inflation rate", R(1, 10)>>>>,
     <<<<"total income tax rate", R(1, 4)>>>>}

CostInputs ==
    [operational_year |-> 2022, installation_years |-> 2, plant_life |-> 2,
     plant_capacity_mtpy |-> RInt(4)]

FinanceInputs(fa) ==
    [lcoe |-> R(1, 20), lco_iron_ore_tonne |-> RInt(200), gen_inflation |-> R(1, 4),
     plant_capacity_mtpy |-> RInt(4), financial_assumptions |-> fa]

OptionalLcoh(d) == {d} \cup {DictSet(d, "lcoh", v) : v \in LcohValues}

\* the 'iron' entry with the dict under key k empty (k = "": none emptied)
Emptied(iron, k) == IF k = "" THEN iron ELSE [iron EXCEPT ![k] = <<>>]

GreenheartConfigs ==
    {[iron |-> Emptied([technology |-> t, site |-> SiteDict,
                        performance |-> [plant_capacity_mtpy |-> RInt(4)],
                        performance_model |-> ModelDict(""),
                        costs |-> c, cost_model |-> ModelDict(cfp),
                        finances |-> f, finance_model |-> [name |-> "Rosner", model_fp |-> ffp]], k),
      project_parameters |-> [cost_year |-> 2020]] :
        t \in {"h2_dri", ""}, c \in OptionalLcoh(CostInputs),
        f \in OptionalLcoh(FinanceInputs(CHOOSE fa \in FinancialAssumptions : Len(fa) = 1)),
        cfp \in {"", CustomModule}, ffp \in {"", CustomModule},
        k \in {"", "site", "performance_model", "cost_model", "finance_model"}}

\* ----------------------------------------------- run_iron_full_model ----
\* the gate with the cost-stage LCOH compared with itself
LcohGateCostsOnly(ic) ==
    IF "lcoh" \notin DOMAIN ic.costs THEN "KeyError"
    ELSE IF ic.costs["lcoh"] # ic.costs["lcoh"] THEN "ValueError"
    ELSE ""

\* the exception the LCOH gate ends with, "" when it passes
LcohGate(ic) ==
    IF "lcoh" \notin DOMAIN ic.costs \/ "lcoh" \notin DOMAIN ic.finances THEN "KeyError"
    ELSE IF ic.costs["lcoh"] # ic.finances["lcoh"] THEN "ValueError"
    ELSE ""

\* the constructor check without the model dict
ConfigPostInitNoModel(technology, site, model) ==
    IF technology = "" THEN "ValueError"
    ELSE IF DOMAIN site = {} THEN "ValueError"
    ELSE ""

\* __attrs_post_init__ of the three config classes: the exception raised, or ""
ConfigPostInit(technology, site, model) ==
    IF technology = "" THEN "ValueError"
    ELSE IF DOMAIN site = {} THEN "ValueError"
    ELSE IF DOMAIN model = {} THEN "ValueError"
    ELSE ""

\* config.model with its empty paths replaced by the stage's defaults
DefaultedModel(model, stage) ==
    LET locs == model_locs[stage][model.name]
        fill(k, v) == IF k \in DOMAIN model /\ model[k] = "" THEN v ELSE model[k]
    IN  [k \in DOMAIN model |->
            CASE k = "model_fp" -> fill(k, locs.model)
              [] k = "inputs_fp" /\ stage # "finance" -> fill(k, locs.inputs)
              [] k = "coeffs_fp" /\ stage # "finance" -> fill(k, locs.coeffs)
              [] OTHER -> model[k]]

\* lines 267-274: deep copy of the 'iron' entry, then the LCOH gate
run_iron_full_model_gate ==
    /\ entry = "run_iron_full_model" /\ pc = "full:267"
    /\ iron_config' = greenheart_config.iron
    /\ LET e == LcohGate(greenheart_config.iron)
       IN  IF e # "" THEN Raise(e) ELSE pc' = "full:276" /\ err' = err
    /\ UNCHANGED <<entry, stages, greenheart_config, config, iron_performance, iron_cost,
                   iron_finance, returned, tables, cm, fm, pf_calls, model_outputs>>

\* iron_finance_inputs after lines 288-291
InjectedFinances(ic, gc) ==
    DictSet(DictSet(DictSet(DictSet(ic.finances,
        "operational_year", ic.costs["operational_year"]),
        "installation_years", ic.costs["installation_years"]),
        "plant_life", ic.costs["plant_life"]),
        "cost_year", gc.project_parameters["cost_year"])

\* the injection written to the caller's dict as well, as without the deep copy
run_iron_full_model_inject_in_place ==
    /\ entry = "run_iron_full_model" /\ pc = "full:276"
    /\ IF /\ {"operational_year", "installation_years", "plant_life"} \subseteq DOMAIN iron_config.costs
          /\ "cost_year" \in DOMAIN greenheart_config.project_parameters
       THEN /\ iron_config' = [iron_config EXCEPT !.finances = InjectedFinances(iron_config, greenheart_config)]
            /\ greenheart_config' = [greenheart_config EXCEPT !.iron = iron_config']
            /\ pc' = "full:294" /\ err' = err
       ELSE /\ Raise("KeyError") /\ iron_config' = iron_config
            /\ greenheart_config' = greenheart_config
    /\ UNCHANGED <<entry, stages, config, iron_performance, iron_cost,
                   iron_finance, returned, tables, cm, fm, pf_calls, model_outputs>>

\* lines 276-291: the finance inputs get the cost inputs' schedule and the cost year
run_iron_full_model_inject ==
    /\ entry = "run_iron_full_model" /\ pc = "full:276"
    /\ IF /\ {"operational_year", "installation_years", "plant_life"} \subseteq DOMAIN iron_config.costs
          /\ "cost_year" \in DOMAIN greenheart_config.project_parameters
       THEN /\ iron_config' = [iron_config EXCEPT !.finances = InjectedFinances(iron_config, greenheart_config)]
            /\ pc' = "full:294" /\ err' = err
       ELSE /\ Raise("KeyError") /\ iron_config' = iron_config
    /\ UNCHANGED <<entry, stages, greenheart_config, config, iron_performance, iron_cost,
                   iron_finance, returned, tables, cm, fm, pf_calls, model_outputs>>

\* lines 294-299: IronPerformanceModelConfig(...)
run_iron_full_model_performance_config ==
    /\ entry = "run_iron_full_model" /\ pc = "full:294"
    /\ LET e == ConfigPostInit(iron_config.technology, iron_config.site, iron_config.performance_model)
       IN  IF e # "" THEN Raise(e) /\ config' = config
           ELSE /\ config' = [class |-> "IronPerformanceModelConfig",
                              technology |-> iron_config.technology, site |-> iron_config.site,
                              model |-> iron_config.performance_model,
                              params |-> iron_config.performance]
                /\ pc' = "rsp:73" /\ err' = err
    /\ UNCHANGED <<entry, stages, greenheart_config, iron_config, iron_performance, iron_cost,
                   iron_finance, returned, tables, cm, fm, pf_calls, model_outputs>>

\* number of rows of a table / of items of a tuple
PyLen(v) == IF v.type = "tuple" THEN Len(v.items) ELSE Len(v.rows)

\* lines 73-84 and 300: the performance model's main runs and its table is wrapped;
\* config.model is the dict iron_config['performance_model'], so both see the paths
run_size_iron_plant_performance ==
    /\ pc = "rsp:73"
    /\ config' = [config EXCEPT !.model = DefaultedModel(@, "performance")]
    /\ iron_config' = [iron_config EXCEPT !.performance_model = DefaultedModel(@, "performance")]
    /\ stages' = Append(stages, "performance")
    /\ IF PyLen(tables.performances_df) = 0
       THEN Raise("ValueError") /\ iron_performance' = iron_performance
       ELSE /\ iron_performance' = [performances_df |-> tables.performances_df]
            /\ pc' = "full:303" /\ err' = err
    /\ UNCHANGED <<entry, greenheart_config, iron_cost, iron_finance, returned, tables, cm,
                   fm, pf_calls, model_outputs>>

\* lines 303-309: IronCostModelConfig(...)
run_iron_full_model_cost_config ==
    /\ entry = "run_iron_full_model" /\ pc = "full:303"
    /\ LET e == ConfigPostInit(iron_config.technology, iron_config.site, iron_config.cost_model)
       IN  IF e # "" THEN Raise(e) /\ config' = config
           ELSE /\ config' = [class |-> "IronCostModelConfig",
                              performance |-> iron_performance,
                              technology |-> iron_config.technology, site |-> iron_config.site,
                              model |-> iron_config.cost_model, params |-> iron_config.costs]
                /\ pc' = "rcm:148" /\ err' = err
    /\ UNCHANGED <<entry, stages, greenheart_config, iron_config, iron_performance, iron_cost,
                   iron_finance, returned, tables, cm, fm, pf_calls, model_outputs>>

\* config.model aliases the caller's dict: iron_config[key] in the full model
AliasedModel(ic, key, stage) ==
    IF entry = "run_iron_full_model" THEN [ic EXCEPT ![key] = DefaultedModel(@, stage)] ELSE ic

\* lines 148-156: default paths, import of the module, call of its main
run_iron_cost_model ==
    /\ pc = "rcm:148"
    /\ config' = [config EXCEPT !.model = DefaultedModel(@, "cost")]
    /\ iron_config' = AliasedModel(iron_config, "cost_model", "cost")
    /\ stages' = Append(stages, "cost")
    /\ IF DefaultedModel(config.model, "cost").model_fp = RosnerCost
       THEN pc' = "cost:26" /\ model_outputs' = model_outputs
       ELSE pc' = "rcm:158" /\ model_outputs' = tables.custom_costs_df
    /\ UNCHANGED <<entry, err, greenheart_config, iron_performance, iron_cost, iron_finance,
                   returned, tables, cm, fm, pf_calls>>

\* line 158: IronCostModelOutputs(costs_df = model_outputs)
run_iron_cost_model_outputs ==
    /\ pc = "rcm:158"
    /\ IF PyLen(model_outputs) = 0
       THEN Raise("ValueError") /\ UNCHANGED <<iron_cost, returned>>
       ELSE /\ iron_cost' = [costs_df |-> model_outputs]
            /\ err' = err
            /\ IF entry = "run_iron_full_model"
               THEN pc' = "full:313" /\ returned' = returned
               ELSE pc' = "returned" /\ returned' = [costs_df |-> model_outputs]
    /\ UNCHANGED <<entry, stages, greenheart_config, iron_config, config, iron_performance,
                   iron_finance, tables, cm, fm, pf_calls, model_outputs>>

\* lines 313-320: IronFinanceModelConfig(...)
run_iron_full_model_finance_config ==
    /\ entry = "run_iron_full_model" /\ pc = "full:313"
    /\ LET e == ConfigPostInit(iron_config.technology, iron_config.site, iron_config.finance_model)
       IN  IF e # "" THEN Raise(e) /\ config' = config
           ELSE /\ config' = [class |-> "IronFinanceModelConfig",
                              performance |-> iron_performance, cost |-> iron_cost,
                              technology |-> iron_config.technology, site |-> iron_config.site,
                              model |-> iron_config.finance_model, params |-> iron_config.finances]
                /\ pc' = "rfm:240" /\ err' = err
    /\ UNCHANGED <<entry, stages, greenheart_config, iron_config, iron_performance, iron_cost,
                   iron_finance, returned, tables, cm, fm, pf_calls, model_outputs>>

\* lines 240-244: default path, import of the module, call of its main
run_iron_finance_model ==
    /\ pc = "rfm:240"
    /\ config' = [config EXCEPT !.model = DefaultedModel(@, "finance")]
    /\ iron_config' = AliasedModel(iron_config, "finance_model", "finance")
    /\ stages' = Append(stages, "finance")
    /\ IF DefaultedModel(config.model, "finance").model_fp = RosnerFinance
       THEN pc' = "fin:12" /\ model_outputs' = model_outputs
       ELSE pc' = "rfm:246" /\ model_outputs' = tables.custom_finance_outputs
    /\ UNCHANGED <<entry, err, greenheart_config, iron_performance, iron_cost, iron_finance,
                   returned, tables, cm, fm, pf_calls>>

\* the exception of `sol, summary, price_breakdown = model_outputs`, or ""
Unpack3(outputs) == IF Len(outputs.items) # 3 THEN "ValueError" ELSE ""

\* lines 246-249: the main's result is unpacked into IronFinanceModelOutputs
run_iron_finance_model_outputs ==
    /\ pc = "rfm:246"
    /\ LET e == Unpack3(model_outputs)
           out == [sol |-> model_outputs.items[1], summary |-> model_outputs.items[2],
                   price_breakdown |-> model_outputs.items[3]]
       IN  IF e # "" THEN Raise(e) /\ UNCHANGED <<iron_finance, returned>>
           ELSE /\ iron_finance' = out
                /\ err' = err
                /\ IF entry = "run_iron_full_model"
                   THEN pc' = "full:323" /\ returned' = returned
                   ELSE pc' = "returned" /\ returned' = out
    /\ UNCHANGED <<entry, stages, greenheart_config, iron_config, config, iron_performance,
                   iron_cost, tables, cm, fm, pf_calls, model_outputs>>

\* lines 323-327: the three outputs are returned
run_iron_full_model_return ==
    /\ entry = "run_iron_full_model" /\ pc = "full:323"
    /\ returned' = [performance |-> iron_performance, cost |-> iron_cost, finance |-> iron_finance]
    /\ pc' = "returned"
    /\ UNCHANGED <<entry, err, stages, greenheart_config, iron_config, config, iron_performance,
                   iron_cost, iron_finance, tables, cm, fm, pf_calls, model_outputs>>

\* ------------------------------------------- tables of the pipeline ----
DataFrame(rows) == [type |-> "DataFrame", rows |-> rows]
Tuple(items) == [type |-> "tuple", items |-> items]

\* the output of the performance model: one row per named quantity
PerformanceRows ==
    <<[Name |-> "Capacity Factor", Model |-> R(9, 10)],
      [Name |-> "Hydrogen", Model |-> R(1, 20)],
      [Name |-> "Natural Gas", Model |-> R(1, 2)],
      [Name |-> "Electricity", Model |-> R(1, 10)],
      [Name |-> "Raw Water Withdrawal", Model |-> RInt(1)],
      [Name |-> "Lime", Model |-> R(1, 100)],
      [Name |-> "Carbon (Coke)", Model |-> R(1, 50)],
      [Name |-> "Iron Ore", Model |-> R(3, 2)],
      [Name |-> "Reformer Catalyst", Model |-> RInt(0)],
      [Name |-> "Slag", Model |-> R(1, 5)]>>

\* the unit strings of the cost table, as their characters
UnitCapital(y4) == <<"2", "0", "1", y4, " ", "$">>
UnitPerYear(y4) == <<"2", "0", "1", y4, " ", "$", " ", "p", "e", "r", " ", "y", "e", "a", "r">>

\* a cost table as the finance model reads it: Name, Type, Unit and the site's column
CostsRows(y4, v) ==
    <<[Name |-> "Shaft Furnace", Type |-> "capital", Unit |-> UnitCapital(y4), val |-> RInt(v)],
      [Name |-> "Annual Operating Labor", Type |-> "fixed opex", Unit |-> UnitPerYear(y4), val |-> RInt(3)],
      [Name |-> "Cooling Tower", Type |-> "capital", Unit |-> UnitCapital("8"), val |-> RInt(10)],
      [Name |-> "Maintenance Materials", Type |-> "variable opex", Unit |-> UnitPerYear("8"), val |-> RInt(1)],
      [Name |-> "Installation cost", Type |-> "installation", Unit |-> UnitCapital("8"), val |-> RInt(7)],
      [Name |-> "Land cost", Type |-> "land", Unit |-> UnitCapital("8"), val |-> RInt(2)]>>

CostsDataFrame(y4, v) ==
    [type |-> "DataFrame", columns |-> {"Type", "Unit", SiteDict.name}, rows |-> CostsRows(y4, v)]

\* first row of the table with the given Name (the table has one)
RowOf(df, name) == df.rows[CHOOSE i \in 1..Len(df.rows) : df.rows[i].Name = name]
HasRow(df, name) == \E i \in 1..Len(df.rows) : df.rows[i].Name = name

\* CEPCI and CPI by year (cepci.csv, cpi.csv)
CEPCI == (2018 :> 6) @@ (2019 :> 4) @@ (2020 :> 5) @@ (2022 :> 8)
CPI == (2018 :> 25) @@ (2019 :> 13) @@ (2020 :> 26) @@ (2022 :> 29)

\* a rescaling that takes the first year of the table for the source year
inflate_cepci_from_first_year(amount, source_year, target_year) ==
    RMul(amount, R(CEPCI[target_year], CEPCI[2018]))

\* inflate_cepci / inflate_cpi: amount * index[target] / index[source]
inflate_cepci(amount, source_year, target_year) ==
    RMul(amount, R(CEPCI[target_year], CEPCI[source_year]))
inflate_cpi(amount, source_year, target_year) ==
    RMul(amount, R(CPI[target_year], CPI[source_year]))

\* int(s) of a string of decimal digits
DigitChars == <<"0", "1", "2", "3", "4", "5", "6", "7", "8", "9">>
IsDigit(c) == \E i \in 1..10 : DigitChars[i] = c
DigitVal(c) == (CHOOSE i \in 1..10 : DigitChars[i] = c) - 1
RECURSIVE PyInt(_)
PyInt(cs) == IF cs = <<>> THEN 0 ELSE 10 * PyInt(SubSeq(cs, 1, Len(cs) - 1)) + DigitVal(cs[Len(cs)])
IsPyInt(cs) == cs # <<>> /\ \A i \in 1..Len(cs) : IsDigit(cs[i])

\* unit[:4]
First4(unit) == SubSeq(unit, 1, IF Len(unit) < 4 THEN Len(unit) ELSE 4)

\* ----------------------------------------- Rosner finance_model.main ----
HasAttr(obj, a) == a \in DOMAIN obj

\* lines 25-28
ExcessOxygen(product_selection) ==
    IF product_selection = "ng_eaf" \/ Truthy("h2_eaf") THEN 0 ELSE 395

\* lines 71-76: the commodity's name, "" when the ValueError is raised
ProductName(product_selection) ==
    IF product_selection = "ng_dri" \/ Truthy("h2_dri") THEN "reduced iron"
    ELSE IF product_selection = "ng_eaf" \/ Truthy("h2_eaf") THEN "steel"
    ELSE ""

\* lines 12-28: unit costs and the oxygen usage
finance_main_unit_costs ==
    /\ pc = "fin:12"
    /\ IF ~({"lcoe", "lcoh", "lco_iron_ore_tonne"} \subseteq DOMAIN config.params)
       THEN Raise("KeyError") /\ fm' = fm
       ELSE IF ~HasAttr(config, "product_selection")
       THEN Raise("AttributeError") /\ fm' = fm
       ELSE /\ fm' = [natural_gas_prices |-> R(376232, 100000),
                      lime_unitcost |-> R(1221, 10),
                      carbon_unitcost |-> R(23697, 100),
                      lcoe_dollar_MWH |-> RMul(config.params["lcoe"], RInt(1000)),
                      lcoh_dollar_metric_tonne |-> RMul(config.params["lcoh"], RInt(1000)),
                      iron_ore_pellet_unitcost |-> config.params["lco_iron_ore_tonne"],
                      oxygen_market_price |-> R(3, 100),
                      raw_water_unitcost |-> R(59289, 100000),
                      slag_disposal_unitcost |-> R(3763, 100),
                      excess_oxygen |-> RInt(ExcessOxygen(config.product_selection))]
            /\ pc' = "fin:31" /\ err' = err
    /\ UNCHANGED <<entry, stages, greenheart_config, iron_config, config, iron_performance,
                   iron_cost, iron_finance, returned, tables, cm, pf_calls, model_outputs>>

\* lines 31-57: the exception of the table and parameter lookups, or ""
FinanceLookupError(cfg) ==
    LET perf == cfg.performance.performances_df
        costs == cfg.cost.costs_df
    IN  IF "plant_capacity_mtpy" \notin DOMAIN cfg.params THEN "KeyError"
        ELSE IF ~HasRow(perf, "Capacity Factor") THEN "KeyError"
        ELSE IF costs.type # "DataFrame" THEN "AttributeError"
        ELSE IF cfg.site["name"] \notin costs.columns THEN "KeyError"
        ELSE IF ~HasRow(costs, "Installation cost") \/ ~HasRow(costs, "Land cost") THEN "KeyError"
        ELSE IF ~({"operational_year", "installation_years", "plant_life", "gen_inflation",
                   "cost_year"} \subseteq DOMAIN cfg.params) THEN "KeyError"
        ELSE ""

\* lines 31-59: performance and cost tables, schedule
finance_main_tables ==
    /\ pc = "fin:31"
    /\ LET e == FinanceLookupError(config)
       IN  IF e # "" THEN Raise(e) /\ fm' = fm
           ELSE /\ fm' = [perf_ds |-> config.performance.performances_df,
                          plant_capacity_mtpy |-> config.params["plant_capacity_mtpy"],
                          plant_capacity_factor |-> RowOf(config.performance.performances_df, "Capacity Factor").Model,
                          cost_df |-> config.cost.costs_df,
                          installation_cost |-> RowOf(config.cost.costs_df, "Installation cost").val,
                          land_cost |-> RowOf(config.cost.costs_df, "Land cost").val,
                          operational_year |-> config.params["operational_year"],
                          install_years |-> config.params["installation_years"],
                          plant_life |-> config.params["plant_life"],
                          gen_inflation |-> config.params["gen_inflation"],
                          cost_year |-> config.params["cost_year"],
                          analysis_start |-> config.params["operational_year"] - config.params["installation_years"]] @@ fm
                /\ pc' = "fin:60" /\ err' = err
    /\ UNCHANGED <<entry, stages, greenheart_config, iron_config, config, iron_performance,
                   iron_cost, iron_finance, returned, tables, cm, pf_calls, model_outputs>>

\* lines 60-64: the engine, from the caller's description or blank
finance_main_engine ==
    /\ pc = "fin:60"
    /\ pf_calls' = <<IF "pf" \in DOMAIN config.params
                     THEN [op |-> "create_and_populate_profast", pf |-> 1]
                     ELSE [op |-> "ProFAST", pf |-> 1]>>
    /\ fm' = [pf |-> 1] @@ fm
    /\ pc' = "fin:67"
    /\ UNCHANGED <<entry, err, stages, greenheart_config, iron_config, config, iron_performance,
                   iron_cost, iron_finance, returned, tables, cm, model_outputs>>

SetParams(name, val) == [op |-> "set_params", pf |-> fm.pf, name |-> name, val |-> val]

\* lines 67-68: financial_assumptions is a list of <<name, value>> in the dict's order
AssumptionCalls(fa) == [i \in 1..Len(fa) |-> SetParams(fa[i][1], fa[i][2])]

finance_main_assumptions ==
    /\ pc = "fin:67"
    /\ IF "financial_assumptions" \notin DOMAIN config.params
       THEN Raise("KeyError") /\ pf_calls' = pf_calls
       ELSE /\ pf_calls' = pf_calls \o AssumptionCalls(config.params["financial_assumptions"])
            /\ pc' = "fin:71" /\ err' = err
    /\ UNCHANGED <<entry, stages, greenheart_config, iron_config, config, iron_performance,
                   iron_cost, iron_finance, returned, tables, cm, fm, model_outputs>>

\* lines 71-85: product naming and the commodity
finance_main_commodity ==
    /\ pc = "fin:71"
    /\ LET product_name == ProductName(config.product_selection)
       IN  IF product_name = "" THEN Raise("ValueError") /\ UNCHANGED <<fm, pf_calls>>
           ELSE /\ fm' = [product_name |-> product_name] @@ fm
                /\ pf_calls' = Append(pf_calls, SetParams("commodity",
                        [name |-> product_name, unit |-> "metric tonnes",
                         initial_price |-> RInt(1000), escalation |-> fm.gen_inflation]))
                /\ pc' = "fin:86" /\ err' = err
    /\ UNCHANGED <<entry, stages, greenheart_config, iron_config, config, iron_performance,
                   iron_cost, iron_finance, returned, tables, cm, model_outputs>>

Escalated(v) == [value |-> v, escalation |-> fm.gen_inflation]

\* the core parameters with the land cost folded into the installation cost
CoreParamCallsLandInstalled ==
    <<SetParams("capacity", RDiv(fm.plant_capacity_mtpy, RInt(365))),
      SetParams("maintenance", Escalated(RInt(0))),
      SetParams("analysis start year", fm.analysis_start),
      SetParams("operating life", fm.plant_life),
      SetParams("installation months", 12 * fm.install_years),
      SetParams("installation cost",
                [value |-> RAdd(fm.installation_cost, fm.land_cost), depr_type |-> "Straight line",
                 depr_period |-> 4, depreciable |-> FALSE]),
      SetParams("non depr assets", fm.land_cost),
      SetParams("end of proj sale non depr assets",
                RMul(fm.land_cost, RPow(RAdd(RInt(1), fm.gen_inflation), RInt(fm.plant_life)))),
      SetParams("demand rampup", R(53, 10)),
      SetParams("long term utilization", fm.plant_capacity_factor),
      SetParams("credit card fees", RInt(0)),
      SetParams("sales tax", RInt(0)),
      SetParams("license and permit", Escalated(RInt(0))),
      SetParams("rent", Escalated(RInt(0))),
      SetParams("property tax and insurance", RInt(0)),
      SetParams("admin expense", RInt(0)),
      SetParams("sell undepreciated cap", TRUE),
      SetParams("tax losses monetized", TRUE),
      SetParams("general inflation rate", fm.gen_inflation),
      SetParams("debt type", "Revolving debt"),
      SetParams("cash onhand", RInt(1))>>

\* lines 86-119
CoreParamCalls ==
    <<SetParams("capacity", RDiv(fm.plant_capacity_mtpy, RInt(365))),
      SetParams("maintenance", Escalated(RInt(0))),
      SetParams("analysis start year", fm.analysis_start),
      SetParams("operating life", fm.plant_life),
      SetParams("installation months", 12 * fm.install_years),
      SetParams("installation cost",
                [value |-> fm.installation_cost, depr_type |-> "Straight line",
                 depr_period |-> 4, depreciable |-> FALSE]),
      SetParams("non depr assets", fm.land_cost),
      SetParams("end of proj sale non depr assets",
                RMul(fm.land_cost, RPow(RAdd(RInt(1), fm.gen_inflation), RInt(fm.plant_life)))),
      SetParams("demand rampup", R(53, 10)),
      SetParams("long term utilization", fm.plant_capacity_factor),
      SetParams("credit card fees", RInt(0)),
      SetParams("sales tax", RInt(0)),
      SetParams("license and permit", Escalated(RInt(0))),
      SetParams("rent", Escalated(RInt(0))),
      SetParams("property tax and insurance", RInt(0)),
      SetParams("admin expense", RInt(0)),
      SetParams("sell undepreciated cap", TRUE),
      SetParams("tax losses monetized", TRUE),
      SetParams("general inflation rate", fm.gen_inflation),
      SetParams("debt type", "Revolving debt"),
      SetParams("cash onhand", RInt(1))>>

\* the core parameters set ahead of the financial assumptions
finance_main_params_before_assumptions ==
    /\ pc = "fin:86"
    /\ pf_calls' = SubSeq(pf_calls, 1, 1) \o CoreParamCalls \o SubSeq(pf_calls, 2, Len(pf_calls))
    /\ pc' = "fin:122"
    /\ UNCHANGED <<entry, err, stages, greenheart_config, iron_config, config, iron_performance,
                   iron_cost, iron_finance, returned, tables, cm, fm, model_outputs>>

finance_main_params ==
    /\ pc = "fin:86"
    /\ pf_calls' = pf_calls \o CoreParamCalls
    /\ pc' = "fin:122"
    /\ UNCHANGED <<entry, err, stages, greenheart_config, iron_config, config, iron_performance,
                   iron_cost, iron_finance, returned, tables, cm, fm, model_outputs>>

\* rows of the cost table with the given Type, in table order (np.where)
RowsOfType(df, type) == SelectSeq(df.rows, LAMBDA r : r.Type = type)

\* lines 126-128 / 143-145: the exception of one item's year parsing and rescaling, or ""
ItemError(row, index, cost_year) ==
    IF ~IsPyInt(First4(row.Unit)) THEN "ValueError"
    ELSE IF PyInt(First4(row.Unit)) \notin DOMAIN index \/ cost_year \notin DOMAIN index THEN "KeyError"
    ELSE ""

ItemsError(rows, index, cost_year) ==
    IF \A i \in 1..Len(rows) : ItemError(rows[i], index, cost_year) = "" THEN ""
    ELSE ItemError(rows[CHOOSE i \in 1..Len(rows) :
                            /\ ItemError(rows[i], index, cost_year) # ""
                            /\ \A j \in 1..(i - 1) : ItemError(rows[j], index, cost_year) = ""],
                   index, cost_year)

ItemName(product_selection, name) == product_selection \o ": " \o name

\* the capital items rescaled with the consumer price index
CapitalItemCallsWithCPI(df, product_selection, cost_year) ==
    LET rows == RowsOfType(df, "capital")
    IN  [i \in 1..Len(rows) |->
            [op |-> "add_capital_item", pf |-> fm.pf,
             name |-> ItemName(product_selection, rows[i].Name),
             cost |-> inflate_cpi(rows[i].val, PyInt(First4(rows[i].Unit)), cost_year),
             depr_type |-> "MACRS", depr_period |-> 7, refurb |-> <<0>>]]

\* lines 122-136: one add_capital_item per 'capital' row
CapitalItemCalls(df, product_selection, cost_year) ==
    LET rows == RowsOfType(df, "capital")
    IN  [i \in 1..Len(rows) |->
            [op |-> "add_capital_item", pf |-> fm.pf,
             name |-> ItemName(product_selection, rows[i].Name),
             cost |-> inflate_cepci(rows[i].val, PyInt(First4(rows[i].Unit)), cost_year),
             depr_type |-> "MACRS", depr_period |-> 7, refurb |-> <<0>>]]

finance_main_capital_items ==
    /\ pc = "fin:122"
    /\ LET e == ItemsError(RowsOfType(fm.cost_df, "capital"), CEPCI, fm.cost_year)
       IN  IF e # "" THEN Raise(e) /\ pf_calls' = pf_calls
           ELSE /\ pf_calls' = pf_calls \o CapitalItemCalls(fm.cost_df, config.product_selection, fm.cost_year)
                /\ pc' = "fin:139" /\ err' = err
    /\ UNCHANGED <<entry, stages, greenheart_config, iron_config, config, iron_performance,
                   iron_cost, iron_finance, returned, tables, cm, fm, model_outputs>>

\* one add_fixed_cost per row of either opex Type
FixedCostCallsAllOpex(df, product_selection, cost_year) ==
    LET rows == SelectSeq(df.rows, LAMBDA r : r.Type \in {"fixed opex", "variable opex"})
    IN  [i \in 1..Len(rows) |->
            [op |-> "add_fixed_cost", pf |-> fm.pf,
             name |-> ItemName(product_selection, rows[i].Name),
             usage |-> RInt(1), unit |-> "$/year",
             cost |-> inflate_cpi(rows[i].val, PyInt(First4(rows[i].Unit)), cost_year),
             escalation |-> fm.gen_inflation]]

\* lines 139-152: one add_fixed_cost per 'fixed opex' row
FixedCostCalls(df, product_selection, cost_year) ==
    LET rows == RowsOfType(df, "fixed opex")
    IN  [i \in 1..Len(rows) |->
            [op |-> "add_fixed_cost", pf |-> fm.pf,
             name |-> ItemName(product_selection, rows[i].Name),
             usage |-> RInt(1), unit |-> "$/year",
             cost |-> inflate_cpi(rows[i].val, PyInt(First4(rows[i].Unit)), cost_year),
             escalation |-> fm.gen_inflation]]

finance_main_fixed_costs ==
    /\ pc = "fin:139"
    /\ LET e == ItemsError(RowsOfType(fm.cost_df, "fixed opex"), CPI, fm.cost_year)
       IN  IF e # "" THEN Raise(e) /\ pf_calls' = pf_calls
           ELSE /\ pf_calls' = pf_calls \o FixedCostCalls(fm.cost_df, config.product_selection, fm.cost_year)
                /\ pc' = "fin:157" /\ err' = err
    /\ UNCHANGED <<entry, stages, greenheart_config, iron_config, config, iron_performance,
                   iron_cost, iron_finance, returned, tables, cm, fm, model_outputs>>

\* the feedstocks with hydrogen priced per kg
FeedstocksHydrogenPerKg ==
    <<<<"Raw Water Withdrawal", "Raw Water Withdrawal", fm.raw_water_unitcost>>,
      <<"Lime", "Lime", fm.lime_unitcost>>,
      <<"Carbon", "Carbon (Coke)", fm.carbon_unitcost>>,
      <<"Iron Ore", "Iron Ore", fm.iron_ore_pellet_unitcost>>,
      <<"Hydrogen", "Hydrogen", config.params["lcoh"]>>,
      <<"Natural Gas", "Natural Gas", fm.natural_gas_prices>>,
      <<"Electricity", "Electricity", fm.lcoe_dollar_MWH>>,
      <<"Slag Disposal", "Slag", fm.slag_disposal_unitcost>>>>

\* lines 157-212: (feedstock name, performance row, unit cost) in call order
Feedstocks ==
    <<<<"Raw Water Withdrawal", "Raw Water Withdrawal", fm.raw_water_unitcost>>,
      <<"Lime", "Lime", fm.lime_unitcost>>,
      <<"Carbon", "Carbon (Coke)", fm.carbon_unitcost>>,
      <<"Iron Ore", "Iron Ore", fm.iron_ore_pellet_unitcost>>,
      <<"Hydrogen", "Hydrogen", fm.lcoh_dollar_metric_tonne>>,
      <<"Natural Gas", "Natural Gas", fm.natural_gas_prices>>,
      <<"Electricity", "Electricity", fm.lcoe_dollar_MWH>>,
      <<"Slag Disposal", "Slag", fm.slag_disposal_unitcost>>>>

FeedstockCalls(product_selection) ==
    [i \in 1..Len(Feedstocks) |->
        [op |-> "add_feedstock", pf |-> fm.pf,
         name |-> ItemName(product_selection, Feedstocks[i][1]),
         usage |-> RowOf(fm.perf_ds, Feedstocks[i][2]).Model,
         cost |-> Feedstocks[i][3], escalation |-> fm.gen_inflation]]

finance_main_feedstocks ==
    /\ pc = "fin:157"
    /\ IF \E i \in 1..Len(Feedstocks) : ~HasRow(fm.perf_ds, Feedstocks[i][2])
       THEN Raise("KeyError") /\ pf_calls' = pf_calls
       ELSE /\ pf_calls' = pf_calls \o FeedstockCalls(config.product_selection)
            /\ pc' = "fin:214" /\ err' = err
    /\ UNCHANGED <<entry, stages, greenheart_config, iron_config, config, iron_performance,
                   iron_cost, iron_finance, returned, tables, cm, fm, model_outputs>>

\* lines 214-220
CoproductCall(product_selection) ==
    [op |-> "add_coproduct", pf |-> fm.pf,
     name |-> ItemName(product_selection, "Oxygen sales"),
     usage |-> fm.excess_oxygen, cost |-> fm.oxygen_market_price,
     escalation |-> fm.gen_inflation]

finance_main_coproduct ==
    /\ pc = "fin:214"
    /\ pf_calls' = Append(pf_calls, CoproductCall(config.product_selection))
    /\ pc' = "fin:224"
    /\ UNCHANGED <<entry, err, stages, greenheart_config, iron_config, config, iron_performance,
                   iron_cost, iron_finance, returned, tables, cm, fm, model_outputs>>

\* the calls that change what the engine solves
Registering == {"set_params", "add_capital_item", "add_fixed_cost", "add_feedstock", "add_coproduct"}

\* what an accessor of the engine reads: the last converged solve and the
\* number of registrations the engine holds
EngineState(calls) ==
    LET solves == {i \in 1..Len(calls) : calls[i].op = "solve_price" /\ calls[i].ok}
    IN  [solve |-> IF solves = {} THEN 0 ELSE CHOOSE i \in solves : \A j \in solves : j <= i,
         registered |-> Cardinality({i \in 1..Len(calls) : calls[i].op \in Registering})]

\* the solve with a failed attempt retried and taken as converged
finance_main_solve_retry ==
    /\ pc = "fin:224"
    /\ \E ok \in BOOLEAN :
        /\ pf_calls' = (IF ok THEN pf_calls
                        ELSE Append(pf_calls, [op |-> "solve_price", pf |-> fm.pf, ok |-> FALSE]))
                       \o <<[op |-> "solve_price", pf |-> fm.pf, ok |-> TRUE]>>
        /\ fm' = [sol |-> [from |-> "solve_price"] @@ EngineState(pf_calls')] @@ fm
        /\ pc' = "fin:225" /\ err' = err
    /\ UNCHANGED <<entry, stages, greenheart_config, iron_config, config, iron_performance,
                   iron_cost, iron_finance, returned, tables, cm, model_outputs>>

\* line 224: the solver converges or fails
finance_main_solve ==
    /\ pc = "fin:224"
    /\ \E ok \in BOOLEAN :
        /\ pf_calls' = Append(pf_calls, [op |-> "solve_price", pf |-> fm.pf, ok |-> ok])
        /\ IF ok
           THEN /\ fm' = [sol |-> [from |-> "solve_price"] @@ EngineState(pf_calls')] @@ fm
                /\ pc' = "fin:225" /\ err' = err
           ELSE Raise("ConvergenceError") /\ fm' = fm
    /\ UNCHANGED <<entry, stages, greenheart_config, iron_config, config, iron_performance,
                   iron_cost, iron_finance, returned, tables, cm, model_outputs>>

\* line 225
finance_main_summary ==
    /\ pc = "fin:225"
    /\ pf_calls' = Append(pf_calls, [op |-> "get_summary_vals", pf |-> fm.pf])
    /\ fm' = [summary |-> [from |-> "get_summary_vals"] @@ EngineState(pf_calls)] @@ fm
    /\ pc' = "fin:226"
    /\ UNCHANGED <<entry, err, stages, greenheart_config, iron_config, config, iron_performance,
                   iron_cost, iron_finance, returned, tables, cm, model_outputs>>

\* the breakdown read after one more parameter is set
finance_main_breakdown_after_change ==
    /\ pc = "fin:226"
    /\ pf_calls' = pf_calls \o <<SetParams("cash onhand", RInt(1)),
                                 [op |-> "get_cost_breakdown", pf |-> fm.pf]>>
    /\ fm' = [price_breakdown |-> [from |-> "get_cost_breakdown"] @@ EngineState(pf_calls')] @@ fm
    /\ pc' = "fin:228"
    /\ UNCHANGED <<entry, err, stages, greenheart_config, iron_config, config, iron_performance,
                   iron_cost, iron_finance, returned, tables, cm, model_outputs>>

\* line 226
finance_main_breakdown ==
    /\ pc = "fin:226"
    /\ pf_calls' = Append(pf_calls, [op |-> "get_cost_breakdown", pf |-> fm.pf])
    /\ fm' = [price_breakdown |-> [from |-> "get_cost_breakdown"] @@ EngineState(pf_calls)] @@ fm
    /\ pc' = "fin:228"
    /\ UNCHANGED <<entry, err, stages, greenheart_config, iron_config, config, iron_performance,
                   iron_cost, iron_finance, returned, tables, cm, model_outputs>>

\* line 228: what main returns
FinanceMainResult == Tuple(<<fm.sol, fm.summary, fm.price_breakdown, [engine |-> fm.pf]>>)

finance_main_return ==
    /\ pc = "fin:228"
    /\ model_outputs' = FinanceMainResult
    /\ pc' = "rfm:246"
    /\ UNCHANGED <<entry, err, stages, greenheart_config, iron_config, config, iron_performance,
                   iron_cost, iron_finance, returned, tables, cm, fm, pf_calls>>

\* -------------------------------------------- Rosner cost_model.main ----
\* The labor calibration 63325349.24631249 / 63322395.97940371 (line 132) is kept
\* symbolic: an amount is q + k * Calibration with rational q and k.
Amt(q) == [q |-> q, k |-> RInt(0)]
AmtK(k) == [q |-> RInt(0), k |-> k]
AAdd(a, b) == [q |-> RAdd(a.q, b.q), k |-> RAdd(a.k, b.k)]
AScale(r, a) == [q |-> RMul(r, a.q), k |-> RMul(r, a.k)]

\* lines 31-32
model_year_CEPCI == R(5962, 10)
equation_year_CEPCI == R(7088, 10)

\* not-a-number, as np.log and np.polyfit produce it
NaN == [n |-> 0, d |-> 0]
IsNaN(x) == x.d = 0

\* the power law with the index ratio inverted
CapitalCostInvertedIndex(lin_coeff, exp_coeff, plant_capacity_mtpy) ==
    RMul(RMul(RDiv(equation_year_CEPCI, model_year_CEPCI), lin_coeff),
         RPow(plant_capacity_mtpy, exp_coeff))

\* the power law with the exponent doubled
CapitalCostExponentDoubled(lin_coeff, exp_coeff, plant_capacity_mtpy) ==
    RMul(RMul(RDiv(model_year_CEPCI, equation_year_CEPCI), lin_coeff),
         RPow(RPow(plant_capacity_mtpy, exp_coeff), RInt(2)))

\* lines 84-89 and 106-111: the power law of one capital item
CapitalCost(lin_coeff, exp_coeff, plant_capacity_mtpy) ==
    RMul(RMul(RDiv(model_year_CEPCI, equation_year_CEPCI), lin_coeff),
         RPow(plant_capacity_mtpy, exp_coeff))

\* tech_coeffs rows (Name, Type, Coeff and the technology's column)
TechRows(coeff_df, technology) ==
    [i \in 1..Len(coeff_df.rows) |->
        [Name |-> coeff_df.rows[i].Name, Type |-> coeff_df.rows[i].Type,
         Coeff |-> coeff_df.rows[i].Coeff, val |-> coeff_df.rows[i].val[technology]]]

\* line 99: the names of the rows of Type 'capital'
CapitalItemNames(tech_coeffs) ==
    {tech_coeffs[i].Name : i \in {j \in 1..Len(tech_coeffs) : tech_coeffs[j].Type = "capital"}}

\* lines 101-103: the item's rows, and its first coefficient of the given kind
ItemData(tech_coeffs, item_name) ==
    SelectSeq(tech_coeffs, LAMBDA r : r.Name = item_name /\ r.Type = "capital")
HasCoeff(item_data, kind) == \E i \in 1..Len(item_data) : item_data[i].Coeff = kind
CoeffOf(item_data, kind) ==
    item_data[CHOOSE i \in 1..Len(item_data) :
                /\ item_data[i].Coeff = kind
                /\ \A j \in 1..(i - 1) : item_data[j].Coeff # kind].val

\* lines 99-111: capital_costs in precomputed mode
PrecomputedCapitalCosts(tech_coeffs, plant_capacity_mtpy) ==
    [item_name \in CapitalItemNames(tech_coeffs) |->
        CapitalCost(CoeffOf(ItemData(tech_coeffs, item_name), "lin"),
                    CoeffOf(ItemData(tech_coeffs, item_name), "exp"),
                    plant_capacity_mtpy)]

\* sum(d.values())
RECURSIVE SumValues(_)
SumValues(d) ==
    IF DOMAIN d = {} THEN RInt(0)
    ELSE LET k == CHOOSE x \in DOMAIN d : TRUE
         IN  RAdd(d[k], SumValues([x \in DOMAIN d \ {k} |-> d[x]]))

\* the total over the distinct values only
TotalPlantCostDistinct(capital_costs) ==
    LET vals == {capital_costs[k] : k \in DOMAIN capital_costs}
        byVal == [v \in vals |-> v]
    IN  SumValues(byVal)

\* line 113
TotalPlantCost(capital_costs) == SumValues(capital_costs)

\* str.contains(pattern, case=False) over the strings of the input tables
ContainsNoCase ==
    {<<"H2_DRI", "h2_dri">>, <<"H2_DRI_EAF", "h2_dri">>, <<"NG_DRI", "ng_dri">>,
     <<"H2_EAF", "h2_eaf">>,
     <<"Capacity Factor", "Capacity Factor">>, <<"Pig Iron", "Pig Iron">>,
     <<"Liquid Steel", "Liquid Steel">>, <<"Liquid Steel Cost", "Liquid Steel">>}
StrContains(text, pattern) == <<text, pattern>> \in ContainsNoCase

\* lines 39-43: the rows of the technology without the non-capital quantities
RefitRows(input_df, technology) ==
    SelectSeq(input_df.rows,
              LAMBDA r : /\ StrContains(r.Tech, technology)
                         /\ ~\E p \in {"Capacity Factor", "Pig Iron", "Liquid Steel"} :
                                StrContains(r.Name, p))

\* np.polyfit(log x, log y, 1), as [lin |-> a, exp |-> b] with a = exp(intercept):
\* NaN for both when an observation y is not a number; on observations of a
\* power law y = a * x ** b the pair (a, b); when all x are one constant c
\* the system has rank 1 and the least-squares solver returns its
\* minimum-norm solution, which for y identical to x is (sqrt(c), 1/2)
PolyFit(x, y) ==
    IF \E i \in 1..Len(y) : IsNaN(y[i]) THEN [lin |-> NaN, exp |-> NaN]
    ELSE IF (\A i \in 1..Len(x) : x[i] = x[1]) /\ y = x
    THEN [lin |-> RPow(x[1], R(1, 2)), exp |-> R(1, 2)]
    ELSE CHOOSE c \in [lin : {RInt(a) : a \in 1..MaxLin}, exp : {RInt(0), R(1, 2), RInt(1)}] :
            \A i \in 1..Len(y) : y[i] = RMul(c.lin, RPow(x[i], c.exp))

\* the coefficient kept as np.polyfit returned it
NanKept(v) == v

\* lines 67-68
NanToZero(v) == IF IsNaN(v) THEN RInt(0) ELSE v

\* params_dict with the independent variable's row fitted as an item too
ParamsDictWithSlab(tech_df) ==
    LET x == tech_df[CHOOSE i \in 1..Len(tech_df) : tech_df[i].Name = "Steel Slab"].obs
    IN  [i \in 1..Len(tech_df) |->
            [key |-> tech_df[i].Name,
             lin |-> NanToZero(PolyFit(x, tech_df[i].obs).lin),
             exp |-> NanToZero(PolyFit(x, tech_df[i].obs).exp)]]

\* lines 45-71: params_dict as the list of its items, in row order
ParamsDict(tech_df) ==
    LET x == tech_df[CHOOSE i \in 1..Len(tech_df) : tech_df[i].Name = "Steel Slab"].obs
        others == SelectSeq(tech_df, LAMBDA r : r.Name # "Steel Slab")
    IN  [i \in 1..Len(others) |->
            [key |-> others[i].Name,
             lin |-> NanToZero(PolyFit(x, others[i].obs).lin),
             exp |-> NanToZero(PolyFit(x, others[i].obs).exp)]]

\* lines 74-89: `values` is the last item the printing loop left behind
RefitCapitalCosts(params_dict, plant_capacity_mtpy) ==
    LET values == params_dict[Len(params_dict)]
    IN  [key \in {params_dict[i].key : i \in 1..Len(params_dict)} |->
            CapitalCost(values.lin, values.exp, plant_capacity_mtpy)]

\* first value of the technology's column in the rows of the given Name
HasTechRow(tech_coeffs, name) == \E i \in 1..Len(tech_coeffs) : tech_coeffs[i].Name = name
TechVal(tech_coeffs, name) ==
    tech_coeffs[CHOOSE i \in 1..Len(tech_coeffs) :
                    /\ tech_coeffs[i].Name = name
                    /\ \A j \in 1..(i - 1) : tech_coeffs[j].Name # name].val

\* lines 26-29: top-down prices of the operational year
cost_main_top_down ==
    /\ pc = "cost:26"
    /\ IF ~HasAttr(config, "operational_year") THEN Raise("AttributeError") /\ cm' = cm
       ELSE IF config.operational_year \notin DOMAIN tables.top_down_df
       THEN Raise("KeyError") /\ cm' = cm
       ELSE IF ~HasAttr(config, "technology") THEN Raise("AttributeError") /\ cm' = cm
       ELSE /\ cm' = [top_down_year |-> tables.top_down_df[config.operational_year],
                      technology |-> config.technology]
            /\ pc' = "cost:35" /\ err' = err
    /\ UNCHANGED <<entry, stages, greenheart_config, iron_config, config, iron_performance,
                   iron_cost, iron_finance, returned, tables, fm, pf_calls, model_outputs>>

\* the capital section without the lookup of the Steel Slab row
CapitalErrorNoSlabLookup(cfg, technology) ==
    IF ~HasAttr(cfg, "cost_model") THEN "AttributeError"
    ELSE IF "refit_coeffs" \notin DOMAIN cfg.cost_model THEN "KeyError"
    ELSE IF cfg.cost_model["refit_coeffs"]
    THEN IF Len(RefitRows(tables.input_df, technology)) > 1 /\ ~HasAttr(cfg, "plant_capacity_mtpy")
         THEN "AttributeError"
         ELSE ""
    ELSE IF technology \notin tables.coeff_df.columns \/ technology \notin tables.perf_coeff_df.columns
         THEN "KeyError"
         ELSE LET tech_coeffs == TechRows(tables.coeff_df, technology)
              IN  IF \E n \in CapitalItemNames(tech_coeffs) :
                        \/ ~HasCoeff(ItemData(tech_coeffs, n), "lin")
                        \/ ~HasCoeff(ItemData(tech_coeffs, n), "exp") THEN "IndexError"
                  ELSE IF CapitalItemNames(tech_coeffs) # {} /\ ~HasAttr(cfg, "plant_capacity_mtpy")
                  THEN "AttributeError"
                  ELSE ""

\* lines 35-111: the exception of the capital-item section, or ""
CapitalError(cfg, technology) ==
    IF ~HasAttr(cfg, "cost_model") THEN "AttributeError"
    ELSE IF "refit_coeffs" \notin DOMAIN cfg.cost_model THEN "KeyError"
    ELSE IF cfg.cost_model["refit_coeffs"]
    THEN LET tech_df == RefitRows(tables.input_df, technology)
         IN  IF ~\E i \in 1..Len(tech_df) : tech_df[i].Name = "Steel Slab" THEN "KeyError"
             ELSE IF Len(tech_df) > 1 /\ ~HasAttr(cfg, "plant_capacity_mtpy") THEN "AttributeError"
             ELSE ""
    ELSE IF technology \notin tables.coeff_df.columns \/ technology \notin tables.perf_coeff_df.columns
         THEN "KeyError"
         ELSE LET tech_coeffs == TechRows(tables.coeff_df, technology)
              IN  IF \E n \in CapitalItemNames(tech_coeffs) :
                        \/ ~HasCoeff(ItemData(tech_coeffs, n), "lin")
                        \/ ~HasCoeff(ItemData(tech_coeffs, n), "exp") THEN "IndexError"
                  ELSE IF CapitalItemNames(tech_coeffs) # {} /\ ~HasAttr(cfg, "plant_capacity_mtpy")
                  THEN "AttributeError"
                  ELSE ""

\* lines 35-111: capital_costs, by refit or from the coefficient table
cost_main_capital_items ==
    /\ pc = "cost:35"
    /\ LET e == CapitalError(config, cm.technology)
       IN  IF e # "" THEN Raise(e) /\ cm' = cm
           ELSE /\ err' = err /\ pc' = "cost:113"
                /\ IF config.cost_model["refit_coeffs"]
                   THEN LET params_dict == ParamsDict(RefitRows(tables.input_df, cm.technology))
                        IN  cm' = [refit |-> TRUE, params_dict |-> params_dict,
                                   capital_costs |->
                                       IF params_dict = <<>> THEN <<>>
                                       ELSE RefitCapitalCosts(params_dict, config.plant_capacity_mtpy)] @@ cm
                   ELSE LET tech_coeffs == TechRows(tables.coeff_df, cm.technology)
                        IN  cm' = [refit |-> FALSE, tech_coeffs |-> tech_coeffs,
                                   perf_coeffs |-> tables.perf_coeff_df.val[cm.technology],
                                   capital_costs |->
                                       IF CapitalItemNames(tech_coeffs) = {} THEN <<>>
                                       ELSE PrecomputedCapitalCosts(tech_coeffs, config.plant_capacity_mtpy)] @@ cm
    /\ UNCHANGED <<entry, stages, greenheart_config, iron_config, config, iron_performance,
                   iron_cost, iron_finance, returned, tables, fm, pf_calls, model_outputs>>

\* lines 113-120: the total, and the Peters table of the mode
cost_main_total ==
    /\ pc = "cost:113"
    /\ cm' = (IF cm.refit THEN [total_plant_cost |-> TotalPlantCost(cm.capital_costs)]
              ELSE [total_plant_cost |-> TotalPlantCost(cm.capital_costs),
                    Peters_coeffs |-> tables.Peters_coeffs]) @@ cm
    /\ pc' = "cost:126"
    /\ UNCHANGED <<entry, err, stages, greenheart_config, iron_config, config, iron_performance,
                   iron_cost, iron_finance, returned, tables, fm, pf_calls, model_outputs>>

\* the coefficient rows, prices and usages the cost formulas read
FixedOMRows ==
    {"% Skilled Labor", "% Unskilled Labor", "Processing Steps", "Maintenance Labor Cost",
     "Administrative & Support Labor Cost", "Property Tax & Insurance"}
OwnersRows == {"Maintenance Materials", "Preproduction", "Spare Parts", "Land", "Other Owners's Costs"}
OwnersPrices ==
    {"Raw Water", "Lime", "Carbon", "Iron Ore Pellets", "Reformer Catalyst", "Slag Disposal",
     "Natural Gas", "Electricity"}
OwnersUsages ==
    {"Raw Water Withdrawal", "Lime", "Carbon (Coke)", "Iron Ore", "Reformer Catalyst", "Slag",
     "Hydrogen", "Natural Gas", "Electricity"}

\* lines 126-132
LaborCostAnnualOperation(tech_coeffs, top_down_year, Peters_coeffs, plant_capacity_mtpy) ==
    AmtK(RMul(RMul(RMul(RMul(RInt(365),
            RAdd(RMul(RDiv(TechVal(tech_coeffs, "% Skilled Labor"), RInt(100)),
                      top_down_year["Skilled Labor Cost"]),
                 RMul(RDiv(TechVal(tech_coeffs, "% Unskilled Labor"), RInt(100)),
                      top_down_year["Unskilled Labor Cost"]))),
            TechVal(tech_coeffs, "Processing Steps")),
            Peters_coeffs.lin),
            RPow(RMul(RDiv(plant_capacity_mtpy, RInt(365)), RInt(1000)), Peters_coeffs.exp)))

\* the total without property tax and insurance
TotalFixedOperatingCostNoTax(labor_cost_annual_operation, labor_cost_maintenance, labor_cost_admin_support, property_tax_insurance) ==
    AAdd(AAdd(labor_cost_annual_operation, labor_cost_maintenance), labor_cost_admin_support)

\* lines 140-145
TotalFixedOperatingCost(labor_cost_annual_operation, labor_cost_maintenance, labor_cost_admin_support, property_tax_insurance) ==
    AAdd(AAdd(AAdd(labor_cost_annual_operation, labor_cost_maintenance),
              labor_cost_admin_support), property_tax_insurance)

\* the maintenance labor at the fraction of property tax and insurance
LaborCostMaintenanceAtTaxFraction(tech_coeffs, total_plant_cost) ==
    Amt(RMul(TechVal(tech_coeffs, "Property Tax & Insurance"), total_plant_cost))

\* line 133
LaborCostMaintenance(tech_coeffs, total_plant_cost) ==
    Amt(RMul(TechVal(tech_coeffs, "Maintenance Labor Cost"), total_plant_cost))

\* lines 126-145: the fixed O&M costs
FixedOM(tech_coeffs, top_down_year, Peters_coeffs, plant_capacity_mtpy, total_plant_cost) ==
    LET labor_cost_annual_operation ==
            LaborCostAnnualOperation(tech_coeffs, top_down_year, Peters_coeffs, plant_capacity_mtpy)
        labor_cost_maintenance == LaborCostMaintenance(tech_coeffs, total_plant_cost)
        labor_cost_admin_support ==
            AScale(TechVal(tech_coeffs, "Administrative & Support Labor Cost"),
                   AAdd(labor_cost_annual_operation, labor_cost_maintenance))
        property_tax_insurance ==
            Amt(RMul(TechVal(tech_coeffs, "Property Tax & Insurance"), total_plant_cost))
    IN  [labor_cost_annual_operation |-> labor_cost_annual_operation,
         labor_cost_maintenance |-> labor_cost_maintenance,
         labor_cost_admin_support |-> labor_cost_admin_support,
         property_tax_insurance |-> property_tax_insurance,
         total_fixed_operating_cost |->
            TotalFixedOperatingCost(labor_cost_annual_operation, labor_cost_maintenance,
                                    labor_cost_admin_support, property_tax_insurance)]

\* lines 126-145: the exception of the fixed O&M section, or ""
FixedOMError(cfg, locals) ==
    IF "tech_coeffs" \notin DOMAIN locals THEN "UnboundLocalError"
    ELSE IF ~HasTechRow(locals.tech_coeffs, "% Skilled Labor") THEN "IndexError"
    ELSE IF "Skilled Labor Cost" \notin DOMAIN locals.top_down_year THEN "KeyError"
    ELSE IF ~HasTechRow(locals.tech_coeffs, "% Unskilled Labor") THEN "IndexError"
    ELSE IF "Unskilled Labor Cost" \notin DOMAIN locals.top_down_year THEN "KeyError"
    ELSE IF ~HasTechRow(locals.tech_coeffs, "Processing Steps") THEN "IndexError"
    ELSE IF "Peters_coeffs" \notin DOMAIN locals THEN "UnboundLocalError"
    ELSE IF ~HasAttr(cfg, "plant_capacity_mtpy") THEN "AttributeError"
    ELSE IF \E n \in FixedOMRows : ~HasTechRow(locals.tech_coeffs, n) THEN "IndexError"
    ELSE ""

cost_main_fixed_om ==
    /\ pc = "cost:126"
    /\ LET e == FixedOMError(config, cm)
       IN  IF e # "" THEN Raise(e) /\ cm' = cm
           ELSE /\ cm' = FixedOM(cm.tech_coeffs, cm.top_down_year, cm.Peters_coeffs,
                                 config.plant_capacity_mtpy, cm.total_plant_cost) @@ cm
                /\ pc' = "cost:148" /\ err' = err
    /\ UNCHANGED <<entry, stages, greenheart_config, iron_config, config, iron_performance,
                   iron_cost, iron_finance, returned, tables, fm, pf_calls, model_outputs>>

\* the installation cost without the spare parts
InstallationCostNoSpareParts(labor_cost_fivemonth, preproduction_cost, fuel_consumables_60day_supply_cost, spare_parts_cost, misc_owners_costs) ==
    AAdd(AAdd(AAdd(labor_cost_fivemonth, preproduction_cost),
              fuel_consumables_60day_supply_cost), misc_owners_costs)

\* lines 198-204
InstallationCost(labor_cost_fivemonth, preproduction_cost, fuel_consumables_60day_supply_cost, spare_parts_cost, misc_owners_costs) ==
    AAdd(AAdd(AAdd(AAdd(labor_cost_fivemonth, preproduction_cost),
                   fuel_consumables_60day_supply_cost), spare_parts_cost), misc_owners_costs)

\* lines 162-172
NonFuelConsumablesOneMonth(perf_coeffs, top_down_year, plant_capacity_mtpy) ==
    RDiv(RMul(plant_capacity_mtpy,
        RAdd(RAdd(RAdd(RAdd(
            RMul(perf_coeffs["Raw Water Withdrawal"], top_down_year["Raw Water"]),
            RMul(perf_coeffs["Lime"], top_down_year["Lime"])),
            RMul(perf_coeffs["Carbon (Coke)"], top_down_year["Carbon"])),
            RMul(perf_coeffs["Iron Ore"], top_down_year["Iron Ore Pellets"])),
            RMul(perf_coeffs["Reformer Catalyst"], top_down_year["Reformer Catalyst"]))), RInt(12))

\* a supply of thirty days where sixty are meant
FuelConsumables30DaySupplyCost(non_fuel_consumables_onemonth) ==
    RMul(RDiv(RMul(non_fuel_consumables_onemonth, RInt(12)), RInt(365)), RInt(30))

\* line 192
FuelConsumables60DaySupplyCost(non_fuel_consumables_onemonth) ==
    RMul(RDiv(RMul(non_fuel_consumables_onemonth, RInt(12)), RInt(365)), RInt(60))

\* lines 148-204: the owner's (installation) costs
Owners(locals, plant_capacity_mtpy, lcoh) ==
    LET tc == locals.tech_coeffs
        perf == locals.perf_coeffs
        price == locals.top_down_year
        total == locals.total_plant_cost
        twelfth(x) == RDiv(x, RInt(12))
        labor_cost_fivemonth ==
            AScale(RDiv(RInt(5), RInt(12)),
                   AAdd(AAdd(locals.labor_cost_annual_operation, locals.labor_cost_maintenance),
                        locals.labor_cost_admin_support))
        non_fuel_consumables_onemonth ==
            NonFuelConsumablesOneMonth(perf, price, plant_capacity_mtpy)
        preproduction_cost == Amt(RMul(TechVal(tc, "Preproduction"), total))
        fuel_consumables_60day_supply_cost ==
            Amt(FuelConsumables60DaySupplyCost(non_fuel_consumables_onemonth))
        spare_parts_cost == Amt(RMul(TechVal(tc, "Spare Parts"), total))
        misc_owners_costs == Amt(RMul(TechVal(tc, "Other Owners's Costs"), total))
    IN  [labor_cost_fivemonth |-> labor_cost_fivemonth,
         maintenance_materials_onemonth |->
            Amt(twelfth(RMul(TechVal(tc, "Maintenance Materials"), plant_capacity_mtpy))),
         non_fuel_consumables_onemonth |-> Amt(non_fuel_consumables_onemonth),
         waste_disposal_onemonth |->
            Amt(twelfth(RMul(RMul(plant_capacity_mtpy, perf["Slag"]), price["Slag Disposal"]))),
         monthly_energy_cost |->
            Amt(twelfth(RMul(plant_capacity_mtpy,
                RAdd(RAdd(RMul(RMul(perf["Hydrogen"], lcoh), RInt(1000)),
                          RMul(perf["Natural Gas"], price["Natural Gas"])),
                     RMul(perf["Electricity"], price["Electricity"]))))),
         preproduction_cost |-> preproduction_cost,
         fuel_consumables_60day_supply_cost |-> fuel_consumables_60day_supply_cost,
         spare_parts_cost |-> spare_parts_cost,
         land_cost |-> Amt(RMul(TechVal(tc, "Land"), plant_capacity_mtpy)),
         misc_owners_costs |-> misc_owners_costs,
         installation_cost |->
            InstallationCost(labor_cost_fivemonth, preproduction_cost,
                             fuel_consumables_60day_supply_cost, spare_parts_cost,
                             misc_owners_costs)]

\* lines 148-204: the exception of the owner's-cost section, or ""
OwnersError(cfg, locals) ==
    IF ~HasTechRow(locals.tech_coeffs, "Maintenance Materials") THEN "IndexError"
    ELSE IF \E n \in OwnersUsages : n \notin DOMAIN locals.perf_coeffs THEN "KeyError"
    ELSE IF \E n \in OwnersPrices : n \notin DOMAIN locals.top_down_year THEN "KeyError"
    ELSE IF ~HasAttr(cfg, "lcoh") THEN "AttributeError"
    ELSE IF \E n \in OwnersRows : ~HasTechRow(locals.tech_coeffs, n) THEN "IndexError"
    ELSE ""

\* the owner's costs returning what was computed before a failed lookup
cost_main_owners_costs_partial ==
    /\ pc = "cost:148"
    /\ LET e == OwnersError(config, cm)
       IN  IF e # ""
           THEN /\ model_outputs' = Tuple(<<cm.capital_costs, cm.total_plant_cost,
                                            cm.total_fixed_operating_cost>>)
                /\ pc' = "rcm:158" /\ cm' = cm
           ELSE /\ cm' = Owners(cm, config.plant_capacity_mtpy, config.lcoh) @@ cm
                /\ pc' = "cost:206" /\ model_outputs' = model_outputs
    /\ UNCHANGED <<entry, err, stages, greenheart_config, iron_config, config, iron_performance,
                   iron_cost, iron_finance, returned, tables, fm, pf_calls>>

cost_main_owners_costs ==
    /\ pc = "cost:148"
    /\ LET e == OwnersError(config, cm)
       IN  IF e # "" THEN Raise(e) /\ cm' = cm
           ELSE /\ cm' = Owners(cm, config.plant_capacity_mtpy, config.lcoh) @@ cm
                /\ pc' = "cost:206" /\ err' = err
    /\ UNCHANGED <<entry, stages, greenheart_config, iron_config, config, iron_performance,
                   iron_cost, iron_finance, returned, tables, fm, pf_calls, model_outputs>>

\* lines 206-210: the sixteen values main returns, in order
CostMainResult ==
    Tuple(<<cm.capital_costs, cm.total_plant_cost, cm.labor_cost_annual_operation,
            cm.labor_cost_maintenance, cm.labor_cost_admin_support, cm.property_tax_insurance,
            cm.total_fixed_operating_cost, cm.labor_cost_fivemonth,
            cm.maintenance_materials_onemonth, cm.non_fuel_consumables_onemonth,
            cm.waste_disposal_onemonth, cm.monthly_energy_cost, cm.spare_parts_cost,
            cm.land_cost, cm.misc_owners_costs, cm.installation_cost>>)

cost_main_return ==
    /\ pc = "cost:206"
    /\ model_outputs' = CostMainResult
    /\ pc' = "rcm:158"
    /\ UNCHANGED <<entry, err, stages, greenheart_config, iron_config, config, iron_performance,
                   iron_cost, iron_finance, returned, tables, cm, fm, pf_calls>>

\* ------------------------------------------------------ input tables ----
Capacities == {RInt(r * r) : r \in 2..(MaxCapacityRoot + 1)}
LinCoeffs == {RInt(a) : a \in 1..MaxLin}
\* exponents of the capital items: 0, 1/2 and 1
ExpCoeffs == {RInt(0), R(1, 2), RInt(1)}

PerfCoeffs == [n \in {PerformanceRows[i].Name : i \in 1..Len(PerformanceRows)} |-> RowOf(DataFrame(PerformanceRows), n).Model]

TopDownPrices ==
    [n \in OwnersPrices \cup {"Skilled Labor Cost", "Unskilled Labor Cost"} |->
        CASE n = "Skilled Labor Cost" -> RInt(40)
          [] n = "Unskilled Labor Cost" -> RInt(20)
          [] n = "Raw Water" -> RInt(1)
          [] n = "Lime" -> RInt(100)
          [] n = "Carbon" -> RInt(200)
          [] n = "Iron Ore Pellets" -> RInt(2)
          [] n = "Reformer Catalyst" -> RInt(10)
          [] n = "Slag Disposal" -> RInt(30)
          [] n = "Natural Gas" -> RInt(4)
          [] n = "Electricity" -> RInt(50)]

BothTechs(h2, ng) == [h2_dri |-> h2, ng_dri |-> ng]
Same(v) == BothTechs(v, v)

\* cost_coeffs.csv: two capital items and the fractions of the fixed and owner's costs
CoeffRows(l1, e1, l2, e2) ==
    <<[Name |-> "Shaft Furnace", Type |-> "capital", Coeff |-> "lin", val |-> BothTechs(l1, l2)],
      [Name |-> "Shaft Furnace", Type |-> "capital", Coeff |-> "exp", val |-> BothTechs(e1, e2)],
      [Name |-> "% Skilled Labor", Type |-> "fixed opex", Coeff |-> "lin", val |-> Same(RInt(50))],
      [Name |-> "% Unskilled Labor", Type |-> "fixed opex", Coeff |-> "lin", val |-> Same(RInt(50))],
      [Name |-> "Processing Steps", Type |-> "fixed opex", Coeff |-> "lin", val |-> Same(RInt(2))],
      [Name |-> "Maintenance Labor Cost", Type |-> "fixed opex", Coeff |-> "lin", val |-> Same(R(1, 2))],
      [Name |-> "Administrative & Support Labor Cost", Type |-> "fixed opex", Coeff |-> "lin", val |-> Same(R(1, 2))],
      [Name |-> "Property Tax & Insurance", Type |-> "fixed opex", Coeff |-> "lin", val |-> Same(R(1, 4))],
      [Name |-> "Cooling Tower", Type |-> "capital", Coeff |-> "lin", val |-> BothTechs(l2, l1)],
      [Name |-> "Cooling Tower", Type |-> "capital", Coeff |-> "exp", val |-> BothTechs(e2, e1)],
      [Name |-> "Maintenance Materials", Type |-> "owner", Coeff |-> "lin", val |-> Same(RInt(7))],
      [Name |-> "Preproduction", Type |-> "owner", Coeff |-> "lin", val |-> Same(R(1, 2))],
      [Name |-> "Spare Parts", Type |-> "owner", Coeff |-> "lin", val |-> Same(R(1, 4))],
      [Name |-> "Land", Type |-> "owner", Coeff |-> "lin", val |-> Same(R(1, 2))],
      [Name |-> "Other Owners's Costs", Type |-> "owner", Coeff |-> "lin", val |-> Same(R(1, 2))]>>

\* observations y = lin * x ** exp at the capacities x of the raw dataset
RefitCapacities == <<RInt(4), RInt(16)>>
Observations(lin, exp) == [i \in 1..Len(RefitCapacities) |-> RMul(lin, RPow(RefitCapacities[i], exp))]

\* cost_inputs.csv: quantities by technology with their observations
InputRows(l1, e1, l2, e2) ==
    <<[Tech |-> "H2_DRI", Name |-> "Steel Slab", obs |-> RefitCapacities],
      [Tech |-> "H2_DRI", Name |-> "Capacity Factor", obs |-> <<R(9, 10), R(9, 10)>>],
      [Tech |-> "H2_DRI", Name |-> "Shaft Furnace", obs |-> Observations(l1, e1)],
      [Tech |-> "NG_DRI", Name |-> "Steel Slab", obs |-> RefitCapacities],
      [Tech |-> "NG_DRI", Name |-> "Reformer", obs |-> <<NaN, RInt(3)>>],
      [Tech |-> "NG_DRI", Name |-> "Shaft Furnace", obs |-> Observations(l2, e2)],
      [Tech |-> "NG_DRI", Name |-> "Pig Iron", obs |-> <<RInt(300), RInt(300)>>],
      [Tech |-> "H2_DRI", Name |-> "Liquid Steel Cost", obs |-> <<RInt(500), RInt(400)>>],
      [Tech |-> "H2_DRI", Name |-> "Cooling Tower", obs |-> Observations(l2, e2)],
      [Tech |-> "H2_EAF", Name |-> "Steel Slab", obs |-> <<RInt(4), RInt(4)>>],
      [Tech |-> "H2_EAF", Name |-> "EAF & Casting", obs |-> <<RInt(4), RInt(4)>>]>>

Tables(l1, e1, l2, e2) ==
    [performances_df |-> DataFrame(PerformanceRows),
     custom_costs_df |-> CostsDataFrame("8", 100),
     custom_finance_outputs |-> Tuple(<<[from |-> "custom sol"], [from |-> "custom summary"],
                                        [from |-> "custom breakdown"]>>),
     top_down_df |-> (2022 :> TopDownPrices) @@ (2030 :> TopDownPrices),
     coeff_df |-> [columns |-> {"h2_dri", "ng_dri"}, rows |-> CoeffRows(l1, e1, l2, e2)],
     perf_coeff_df |-> [columns |-> {"h2_dri", "ng_dri"}, val |-> Same(PerfCoeffs)],
     input_df |-> [rows |-> InputRows(l1, e1, l2, e2)],
     Peters_coeffs |-> [lin |-> RInt(1), exp |-> RInt(1)]]

\* the tables with one name missing from the coefficients, one quantity
\* missing from the performance coefficients, or no non-fuel consumables used
NonFuelConsumables == {"Raw Water Withdrawal", "Lime", "Carbon (Coke)", "Iron Ore", "Reformer Catalyst"}
WithoutCoeffRow(t, name) ==
    LET keep(r) == r.Name # name
    IN  [t EXCEPT !.coeff_df = [columns |-> t.coeff_df.columns, rows |-> SelectSeq(t.coeff_df.rows, keep)]]
WithoutPerfRow(t, name) ==
    [t EXCEPT !.perf_coeff_df =
        [columns |-> t.perf_coeff_df.columns,
         val |-> [c \in DOMAIN t.perf_coeff_df.val |-> DictDel(t.perf_coeff_df.val[c], name)]]]
WithoutNonFuelUsage(t) ==
    [t EXCEPT !.perf_coeff_df =
        [columns |-> t.perf_coeff_df.columns,
         val |-> [c \in DOMAIN t.perf_coeff_df.val |->
                    [n \in DOMAIN t.perf_coeff_df.val[c] |->
                        IF n \in NonFuelConsumables THEN RInt(0) ELSE t.perf_coeff_df.val[c][n]]]]]
CostTables ==
    LET all == {Tables(l1, e1, l2, e2) : l1 \in LinCoeffs, l2 \in LinCoeffs,
                                         e1 \in ExpCoeffs, e2 \in ExpCoeffs}
        one == Tables(RInt(1), R(1, 2), RInt(2), RInt(1))
    IN  all \cup {WithoutNonFuelUsage(one), WithoutNonFuelUsage(Tables(RInt(1), RInt(1), RInt(1), RInt(1)))}
            \cup {WithoutCoeffRow(one, n) : n \in FixedOMRows \cup OwnersRows}
            \cup {WithoutPerfRow(one, n) : n \in OwnersUsages}

\* an object with the attributes cost_model.main reads, for run_iron_cost_model
CostConfigs ==
    {[class |-> "object", performance |-> [performances_df |-> DataFrame(PerformanceRows)],
      technology |-> t, site |-> SiteDict, model |-> ModelDict(""), params |-> CostInputs,
      operational_year |-> 2022, plant_capacity_mtpy |-> c, lcoh |-> h,
      cost_model |-> [ModelDict("") EXCEPT !.refit_coeffs = refit]] :
        t \in {"h2_dri", "ng_dri", "ng_eaf", "h2_eaf"}, c \in Capacities, h \in LcohValues, refit \in BOOLEAN}

FinanceParams(fa) ==
    [operational_year |-> 2022, installation_years |-> 2, plant_life |-> 2, cost_year |-> 2020,
     lcoh |-> RInt(1)] @@ FinanceInputs(fa)

\* an IronFinanceModelConfig, and objects that also have product_selection
FinanceConfigs ==
    LET base(fa, y4, own) ==
            [class |-> "IronFinanceModelConfig",
             performance |-> [performances_df |-> DataFrame(PerformanceRows)],
             cost |-> [costs_df |-> CostsDataFrame(y4, 100)],
             technology |-> "h2_dri", site |-> SiteDict,
             model |-> [name |-> "Rosner", model_fp |-> ""],
             params |-> IF own THEN DictSet(FinanceParams(fa), "pf", [params |-> <<>>])
                        ELSE FinanceParams(fa)]
    IN  {base(fa, "8", FALSE) : fa \in FinancialAssumptions}
        \cup {[product_selection |-> ps, class |-> "object"] @@ base(fa, y4, own) :
                ps \in Technologies \cup {"electrowinning"}, fa \in FinancialAssumptions,
                y4 \in {"8", "9"}, own \in BOOLEAN}

\* ------------------------------------------------------ specification ----
InitCommon ==
    /\ err = "" /\ stages = <<>> /\ iron_config = None
    /\ iron_performance = None /\ iron_cost = None /\ iron_finance = None
    /\ returned = None /\ cm = None /\ fm = None /\ pf_calls = <<>> /\ model_outputs = None

Init ==
    /\ InitCommon
    /\ \/ /\ entry = "run_iron_full_model" /\ pc = "full:267"
          /\ greenheart_config \in GreenheartConfigs
          /\ config = None
          /\ tables = Tables(RInt(1), RInt(1), RInt(1), RInt(1))
       \/ /\ entry = "run_iron_cost_model" /\ pc = "rcm:148"
          /\ greenheart_config = None
          /\ config \in CostConfigs
          /\ tables \in CostTables
       \/ /\ entry = "run_iron_finance_model" /\ pc = "rfm:240"
          /\ greenheart_config = None
          /\ config \in FinanceConfigs
          /\ tables = Tables(RInt(1), RInt(1), RInt(1), RInt(1))

Next ==
    \/ run_iron_full_model_gate
    \/ run_iron_full_model_inject
    \/ run_iron_full_model_performance_config
    \/ run_size_iron_plant_performance
    \/ run_iron_full_model_cost_config
    \/ run_iron_cost_model
    \/ run_iron_cost_model_outputs
    \/ run_iron_full_model_finance_config
    \/ run_iron_finance_model
    \/ run_iron_finance_model_outputs
    \/ run_iron_full_model_return
    \/ cost_main_top_down
    \/ cost_main_capital_items
    \/ cost_main_total
    \/ cost_main_fixed_om
    \/ cost_main_owners_costs
    \/ cost_main_return
    \/ finance_main_unit_costs
    \/ finance_main_tables
    \/ finance_main_engine
    \/ finance_main_assumptions
    \/ finance_main_commodity
    \/ finance_main_params
    \/ finance_main_capital_items
    \/ finance_main_fixed_costs
    \/ finance_main_feedstocks
    \/ finance_main_coproduct
    \/ finance_main_solve
    \/ finance_main_summary
    \/ finance_main_breakdown
    \/ finance_main_return

Spec == Init /\ [][Next]_vars

\* ------------------------------------------------- the LCOH gate ----
\* the LCOH a stage's dict carries, as a set of at most one value
LcohOf(d) == IF "lcoh" \in DOMAIN d THEN {d["lcoh"]} ELSE {}
LcohDiffers(ic) == LcohOf(ic.costs) # LcohOf(ic.finances)
NothingProduced ==
    /\ stages = <<>> /\ returned = None
    /\ iron_performance = None /\ iron_cost = None /\ iron_finance = None

\* C1: when the cost-stage LCOH and the finance-stage LCOH of the iron
\* configuration differ, run_iron_full_model ends with an error at the gate:
\* no stage is invoked, no stage output exists and nothing is returned.
C1_LcohMismatchStopsBeforeStages ==
    (entry = "run_iron_full_model" /\ LcohDiffers(greenheart_config.iron)) =>
        /\ pc \in {"full:267", "raised"}
        /\ pc = "raised" => err \in {"ValueError", "KeyError"}
        /\ NothingProduced

\* two different LCOH values were given and the gate has raised
C1_MismatchRaised ==
    /\ entry = "run_iron_full_model" /\ pc = "raised" /\ err = "ValueError"
    /\ LcohOf(greenheart_config.iron.costs) # {}
    /\ LcohOf(greenheart_config.iron.finances) # {}
    /\ LcohDiffers(greenheart_config.iron)

\* C2: when the two LCOH inputs are equal, both unset included, the gate
\* raises nothing: a run with a non-empty technology that ends in an error
\* has invoked the performance model first.
C2_EqualLcohReachesPerformance ==
    (/\ entry = "run_iron_full_model"
     /\ ~LcohDiffers(greenheart_config.iron)
     /\ greenheart_config.iron.technology # ""
     /\ pc = "raised") => stages # <<>>

\* ------------------------------------------------- the pipeline ----
ValidFullConfig ==
    /\ entry = "run_iron_full_model"
    /\ LcohOf(greenheart_config.iron.costs) # {}
    /\ ~LcohDiffers(greenheart_config.iron)
    /\ greenheart_config.iron.technology # ""

\* C3: for a valid configuration run_iron_full_model runs performance, cost
\* and finance in that order and returns their three outputs, and
\* run_iron_finance_model returns the sol, summary and price_breakdown that
\* finance main read from the engine; only a failed solve ends a run early.
C3_PipelineReturnsOutputs ==
    /\ (ValidFullConfig /\ pc \in {"raised", "returned"} /\ err # "ConvergenceError") =>
            /\ pc = "returned"
            /\ stages = <<"performance", "cost", "finance">>
            /\ returned = [performance |-> iron_performance, cost |-> iron_cost,
                           finance |-> iron_finance]
    /\ (/\ entry = "run_iron_finance_model" /\ pc \in {"raised", "returned"}
        /\ "price_breakdown" \in DOMAIN fm) =>
            /\ pc = "returned"
            /\ returned = [sol |-> fm.sol, summary |-> fm.summary,
                           price_breakdown |-> fm.price_breakdown]

\* ------------------------------------------------- finance main ----
CallsOf(ops) == {i \in 1..Len(pf_calls) : pf_calls[i].op \in ops}
Reads == {"get_summary_vals", "get_cost_breakdown"}

\* C4: finance main parameterizes and populates the engine, then solves it
\* once, then reads it: every registration precedes the single solve_price,
\* the eight feedstocks, the co-product and one item per cost row among
\* them, both reads follow the solve on the same engine instance, and no
\* registration falls between the solve and the reads.
C4_SolveOnceBetweenPopulateAndRead ==
    /\ Cardinality(CallsOf({"solve_price"})) <= 1
    /\ \A i \in 1..Len(pf_calls) : pf_calls[i].pf = pf_calls[1].pf
    /\ \A s \in CallsOf({"solve_price"}) :
        /\ \A r \in CallsOf(Registering) : r < s
        /\ Cardinality(CallsOf({"add_feedstock"})) = 8
        /\ Cardinality(CallsOf({"add_coproduct"})) = 1
        /\ Cardinality(CallsOf({"add_capital_item"})) = Len(RowsOfType(config.cost.costs_df, "capital"))
        /\ Cardinality(CallsOf({"add_fixed_cost"})) = Len(RowsOfType(config.cost.costs_df, "fixed opex"))
        /\ Cardinality(CallsOf({"set_params"})) >= 22
    /\ \A r \in CallsOf(Reads) : \E s \in CallsOf({"solve_price"}) : s < r /\ pf_calls[s].ok
    /\ "summary" \in DOMAIN fm => fm.summary.solve = fm.sol.solve
                                 /\ fm.summary.registered = fm.sol.registered
    /\ "price_breakdown" \in DOMAIN fm => fm.price_breakdown.solve = fm.sol.solve
                                         /\ fm.price_breakdown.registered = fm.sol.registered

\* finance main has solved and read both results
C4_SolvedAndRead ==
    /\ pc = "fin:228" /\ "price_breakdown" \in DOMAIN fm
    /\ Cardinality(CallsOf(Reads)) = 2
    /\ Cardinality(CallsOf({"add_capital_item"})) >= 1

FailedSolves == {i \in CallsOf({"solve_price"}) : ~pf_calls[i].ok}

\* C5: a solve that fails ends finance main with the solver's error: the
\* failed solve is the only solve and the last call on the engine, no
\* result is read, and nothing is returned.
C5_SolveFailurePropagates ==
    FailedSolves # {} =>
        /\ pc = "raised" /\ err = "ConvergenceError"
        /\ CallsOf({"solve_price"}) = {Len(pf_calls)}
        /\ CallsOf(Reads) = {}
        /\ DOMAIN fm \cap {"sol", "summary", "price_breakdown"} = {}
        /\ model_outputs = None /\ iron_finance = None /\ returned = None

\* the solver failed after the engine was populated
C5_SolveFailed ==
    /\ FailedSolves # {} /\ pc = "raised"
    /\ Cardinality(CallsOf({"add_feedstock"})) = 8

\* C6: the product is named "reduced iron" for ng_dri and h2_dri and
\* "steel" for ng_eaf and h2_eaf, and any other product selection ends in
\* an error before the commodity is set on the engine.
C6_ProductNameByTechnology ==
    /\ "product_name" \in DOMAIN fm =>
           \/ config.product_selection \in {"ng_dri", "h2_dri"} /\ fm.product_name = "reduced iron"
           \/ config.product_selection \in {"ng_eaf", "h2_eaf"} /\ fm.product_name = "steel"
    /\ \A i \in CallsOf({"set_params"}) :
           pf_calls[i].name = "commodity" => config.product_selection \in Technologies

\* C7: the oxygen co-product is registered with usage zero for ng_dri and
\* h2_dri and with a non-zero usage for ng_eaf and h2_eaf.
C7_OxygenUsageByTechnology ==
    \A i \in CallsOf({"add_coproduct"}) :
        /\ config.product_selection \in {"ng_dri", "h2_dri"} => pf_calls[i].usage = RInt(0)
        /\ config.product_selection \in {"ng_eaf", "h2_eaf"} => pf_calls[i].usage # RInt(0)

\* ---------------------------------------------------- cost main ----
IsCostTuple(out) ==
    /\ "type" \in DOMAIN out /\ out.type = "tuple"
    /\ Len(out.items) = 16
ItemCost(d, name) == IF name \in DOMAIN d THEN d[name] ELSE RInt(0)
ItemsTotal(d) ==
    RAdd(RAdd(ItemCost(d, "Cooling Tower"), ItemCost(d, "Shaft Furnace")),
         RAdd(ItemCost(d, "Reformer"), ItemCost(d, "EAF & Casting")))

\* C8: in refit and in precomputed mode total_plant_cost is the sum of the
\* values of capital_costs, each item once and nothing else, where it is
\* computed and where it is returned.
C8_TotalIsSumOfItems ==
    /\ "total_plant_cost" \in DOMAIN cm =>
           /\ DOMAIN cm.capital_costs \subseteq {"Shaft Furnace", "Cooling Tower", "Reformer", "EAF & Casting"}
           /\ cm.total_plant_cost = ItemsTotal(cm.capital_costs)
    /\ IsCostTuple(model_outputs) =>
           model_outputs.items[2] = ItemsTotal(model_outputs.items[1])

\* cost main has returned two capital items of equal cost
C8_TwoEqualItemsReturned ==
    /\ IsCostTuple(model_outputs) /\ ~cm.refit
    /\ DOMAIN model_outputs.items[1] = {"Shaft Furnace", "Cooling Tower"}
    /\ model_outputs.items[1]["Shaft Furnace"] = model_outputs.items[1]["Cooling Tower"]

\* the total was computed in refit mode over a fitted item
C8_RefitTotal ==
    /\ "total_plant_cost" \in DOMAIN cm /\ cm.refit
    /\ DOMAIN cm.capital_costs # {}

\* C9: total_fixed_operating_cost is the sum of labor_cost_annual_operation,
\* labor_cost_maintenance, labor_cost_admin_support and
\* property_tax_insurance, where it is computed and where it is returned.
C9_FixedTotalIsSumOfFour ==
    /\ "total_fixed_operating_cost" \in DOMAIN cm =>
           cm.total_fixed_operating_cost =
               AAdd(AAdd(cm.property_tax_insurance, cm.labor_cost_admin_support),
                    AAdd(cm.labor_cost_maintenance, cm.labor_cost_annual_operation))
    /\ IsCostTuple(model_outputs) =>
           model_outputs.items[7] =
               AAdd(AAdd(model_outputs.items[6], model_outputs.items[5]),
                    AAdd(model_outputs.items[4], model_outputs.items[3]))

\* cost main has returned with four non-zero components
C9_FixedTotalReturned ==
    /\ IsCostTuple(model_outputs)
    /\ \A i \in 3..6 : model_outputs.items[i] # Amt(RInt(0))

CoeffTableRows == tables.coeff_df.rows
CapitalRowsOf(name, kind) ==
    {i \in 1..Len(CoeffTableRows) :
        /\ CoeffTableRows[i].Type = "capital"
        /\ CoeffTableRows[i].Name = name /\ CoeffTableRows[i].Coeff = kind}
Precomputed == "capital_costs" \in DOMAIN cm /\ ~cm.refit

\* C10: in precomputed mode capital_costs has one entry per item whose rows
\* have Type "capital" and none for rows of another Type, and the entry is
\* (596.2 / 708.8) * lin * plant_capacity_mtpy ** exp with the item's own
\* lin and exp in the technology's column: the index ratio scales the
\* linear coefficient and leaves the exponent alone.
C10_PrecomputedPowerLaw ==
    Precomputed =>
        /\ DOMAIN cm.capital_costs =
               {CoeffTableRows[i].Name :
                    i \in {j \in 1..Len(CoeffTableRows) : CoeffTableRows[j].Type = "capital"}}
        /\ \A name \in DOMAIN cm.capital_costs :
              \A i \in CapitalRowsOf(name, "lin"), j \in CapitalRowsOf(name, "exp") :
                 cm.capital_costs[name] =
                     RMul(R(5962, 7088),
                          RMul(CoeffTableRows[i].val[config.technology],
                               RPow(config.plant_capacity_mtpy,
                                    CoeffTableRows[j].val[config.technology])))

\* two capital items with different coefficients, one with exponent 1/2
C10_OwnCoefficientsUsed ==
    /\ Precomputed
    /\ DOMAIN cm.capital_costs = {"Shaft Furnace", "Cooling Tower"}
    /\ cm.capital_costs["Shaft Furnace"] # cm.capital_costs["Cooling Tower"]
    /\ \E j \in CapitalRowsOf("Shaft Furnace", "exp") :
           CoeffTableRows[j].val[config.technology] = R(1, 2)
    /\ \E i \in CapitalRowsOf("Shaft Furnace", "lin") :
           CoeffTableRows[i].val[config.technology] = RInt(2)

\* --------------------------------------------- cost main, refit mode ----
Refit == "capital_costs" \in DOMAIN cm /\ cm.refit
FittedKeys == {cm.params_dict[i].key : i \in 1..Len(cm.params_dict)}

\* C11: in refit mode every fitted item k is costed with its own fitted
\* pair: capital_costs[k] = (596.2 / 708.8) * a_k * capacity ** b_k.
C11_RefitUsesOwnCoefficients ==
    Refit =>
        \A i \in 1..Len(cm.params_dict) :
            cm.capital_costs[cm.params_dict[i].key] =
                RMul(R(5962, 7088),
                     RMul(cm.params_dict[i].lin,
                          RPow(config.plant_capacity_mtpy, cm.params_dict[i].exp)))

NoMatch ==
    /\ entry = "run_iron_cost_model" /\ config.cost_model["refit_coeffs"]
    /\ \A i \in 1..Len(tables.input_df.rows) :
           ~StrContains(tables.input_df.rows[i].Tech, config.technology)

\* C12 as stated: in refit mode, when no row of the raw dataset matches the
\* technology, no error is raised by the capital section, and the
\* coefficient set and capital_costs are empty and total_plant_cost is zero.
C12_NoMatchYieldsEmptyTotals ==
    NoMatch =>
        /\ pc = "raised" => "total_plant_cost" \in DOMAIN cm
        /\ "total_plant_cost" \in DOMAIN cm =>
               /\ cm.params_dict = <<>> /\ DOMAIN cm.capital_costs = {}
               /\ cm.total_plant_cost = RInt(0)

\* C12 amended: in refit mode, when no row of the raw dataset matches the
\* technology, the lookup of the Steel Slab row raises KeyError: no
\* coefficient set, capital_costs or total_plant_cost is produced and main
\* returns nothing.
C12_NoMatchRaisesKeyError ==
    NoMatch =>
        /\ pc \in {"rcm:148", "cost:26", "cost:35", "raised"}
        /\ pc = "raised" => err = "KeyError"
        /\ DOMAIN cm \cap {"params_dict", "capital_costs", "total_plant_cost"} = {}
        /\ model_outputs = None /\ returned = None

\* the refit of a technology without rows has ended in KeyError
C12_NoMatchRaised == NoMatch /\ pc = "raised" /\ err = "KeyError"

NamesOfTech(technology) ==
    {tables.input_df.rows[i].Name :
        i \in {j \in 1..Len(tables.input_df.rows) :
                  StrContains(tables.input_df.rows[j].Tech, technology)}}

\* C13: in refit mode the keys of the coefficient mapping and of
\* capital_costs are names of rows of the requested technology only: an
\* item found only on rows of another technology is no key, and neither are
\* Capacity Factor, Pig Iron, Liquid Steel and the Steel Slab row.
C13_RefitKeysOfTechnologyOnly ==
    Refit =>
        /\ DOMAIN cm.capital_costs = FittedKeys
        /\ FittedKeys \subseteq NamesOfTech(config.technology)
        /\ \A t \in {"h2_dri", "ng_dri"} \ {config.technology} :
               FittedKeys \cap (NamesOfTech(t) \ NamesOfTech(config.technology)) = {}
        /\ FittedKeys \cap {"Capacity Factor", "Pig Iron", "Liquid Steel", "Liquid Steel Cost",
                            "Steel Slab"} = {}

\* the refit for ng_dri kept the capital items of its rows, while another
\* technology's rows name a further item and its own rows name Pig Iron
C13_OtherTechnologyItemLeftOut ==
    /\ Refit /\ config.technology = "ng_dri"
    /\ FittedKeys = {"Reformer", "Shaft Furnace"}
    /\ "Cooling Tower" \in NamesOfTech("h2_dri")
    /\ "Pig Iron" \in NamesOfTech("ng_dri")

\* the observations of the technology's row of the given name
TechObs(name) ==
    LET rows == tables.input_df.rows
    IN  rows[CHOOSE i \in 1..Len(rows) :
                 StrContains(rows[i].Tech, config.technology) /\ rows[i].Name = name].obs
HasNaN(obs) == \E i \in 1..Len(obs) : obs[i].d = 0
IsConstant(obs) == \A i \in 1..Len(obs) : obs[i] = obs[1]
Degenerate(key) == IsConstant(TechObs("Steel Slab")) /\ TechObs(key) = TechObs("Steel Slab")
NoStoredNaN ==
    \A i \in 1..Len(cm.params_dict) :
        cm.params_dict[i].lin.d # 0 /\ cm.params_dict[i].exp.d # 0
NaNFitsStoredAsZero ==
    \A i \in 1..Len(cm.params_dict) :
        HasNaN(TechObs(cm.params_dict[i].key)) =>
            cm.params_dict[i].lin = RInt(0) /\ cm.params_dict[i].exp = RInt(0)

C14_DegenerateFitStored ==
    Refit /\ \E i \in 1..Len(cm.params_dict) : Degenerate(cm.params_dict[i].key)

\* ------------------------------------------- the configuration classes ----
ConfigClasses == {"IronPerformanceModelConfig", "IronCostModelConfig", "IronFinanceModelConfig"}
EmptySelector(iron, model_key) ==
    iron.technology = "" \/ DOMAIN iron.site = {} \/ DOMAIN iron[model_key] = {}
Invoked(stage) == \E i \in 1..Len(stages) : stages[i] = stage

\* C15: a configuration object of the three classes never has an empty
\* technology, site or model: the construction raises ValueError instead,
\* so the stage whose configuration has an empty selector is never invoked.
C15_EmptySelectorRaisesAtConstruction ==
    /\ ("class" \in DOMAIN config /\ config.class \in ConfigClasses) =>
           config.technology # "" /\ DOMAIN config.site # {} /\ DOMAIN config.model # {}
    /\ entry = "run_iron_full_model" =>
           /\ EmptySelector(greenheart_config.iron, "performance_model") => ~Invoked("performance")
           /\ EmptySelector(greenheart_config.iron, "cost_model") => ~Invoked("cost")
           /\ EmptySelector(greenheart_config.iron, "finance_model") => ~Invoked("finance")
           /\ (EmptySelector(greenheart_config.iron, "finance_model") /\ iron_cost # None
               /\ pc = "raised") => err = "ValueError"

\* the cost configuration with an empty model dict was refused after the
\* performance stage had run
C15_EmptyCostModelRefused ==
    /\ entry = "run_iron_full_model" /\ pc = "raised" /\ err = "ValueError"
    /\ DOMAIN greenheart_config.iron.cost_model = {}
    /\ stages = <<"performance">>

\* ------------------------------------- finance main, the registrations ----
Populated == CallsOf({"add_feedstock"}) # {}
CostTable == config.cost.costs_df.rows
\* the calls of the given kind that register the given row of the cost table
CallsFor(op, row) ==
    {i \in CallsOf({op}) : pf_calls[i].name = config.product_selection \o ": " \o row.Name}

\* C16: once the engine is populated, every 'capital' row of the cost table
\* is registered by exactly one add_capital_item, with MACRS, period 7 and
\* refurbishment [0], every 'fixed opex' row by exactly one add_fixed_cost
\* escalated at the general inflation rate, and a row of another Type by
\* neither; no other capital item or fixed cost is registered.
C16_CapitalAndFixedRowsRegisteredOnce ==
    Populated =>
        /\ \A r \in 1..Len(CostTable) :
            LET row == CostTable[r]
                cap == CallsFor("add_capital_item", row)
                fix == CallsFor("add_fixed_cost", row)
            IN  /\ row.Type = "capital" =>
                       /\ Cardinality(cap) = 1 /\ fix = {}
                       /\ \A i \in cap : /\ pf_calls[i].depr_type = "MACRS"
                                         /\ pf_calls[i].depr_period = 7
                                         /\ pf_calls[i].refurb = <<0>>
                /\ row.Type = "fixed opex" =>
                       /\ Cardinality(fix) = 1 /\ cap = {}
                       /\ \A i \in fix : pf_calls[i].escalation = config.params["gen_inflation"]
                /\ row.Type \notin {"capital", "fixed opex"} => cap = {} /\ fix = {}
        /\ \A i \in CallsOf({"add_capital_item", "add_fixed_cost"}) :
               \E r \in 1..Len(CostTable) :
                   i \in CallsFor(pf_calls[i].op, CostTable[r])

\* a table with capital, fixed and other rows has been registered
C16_TableRegistered ==
    /\ Populated
    /\ Cardinality(CallsOf({"add_capital_item"})) = 2
    /\ Cardinality(CallsOf({"add_fixed_cost"})) = 1
    /\ \E r \in 1..Len(CostTable) : CostTable[r].Type = "variable opex"

\* the year a unit string starts with
YearOf(unit) ==
    CHOOSE y \in 1000..9999 :
        /\ unit[1] = DigitChars[(y \div 1000) + 1]
        /\ unit[2] = DigitChars[((y \div 100) % 10) + 1]
        /\ unit[3] = DigitChars[((y \div 10) % 10) + 1]
        /\ unit[4] = DigitChars[(y % 10) + 1]
Rescaled(row, index) ==
    RMul(row.val, R(index[config.params["cost_year"]], index[YearOf(row.Unit)]))

\* C17: the cost registered for a capital row is the row's value rescaled
\* with CEPCI from the year in the first four characters of its unit to
\* cost_year, and the cost registered for a fixed-opex row is the row's value
\* rescaled with CPI between the same years.
C17_CostsRescaledToCostYear ==
    Populated =>
        \A r \in 1..Len(CostTable) :
            /\ \A i \in CallsFor("add_capital_item", CostTable[r]) :
                   pf_calls[i].cost = Rescaled(CostTable[r], CEPCI)
            /\ \A i \in CallsFor("add_fixed_cost", CostTable[r]) :
                   pf_calls[i].cost = Rescaled(CostTable[r], CPI)

\* capital items of two source years and a fixed cost were registered after
\* a rescaling that changed them
C17_RescaledItemsRegistered ==
    /\ Populated
    /\ \E r1, r2 \in 1..Len(CostTable) :
           /\ CostTable[r1].Type = "capital" /\ CostTable[r2].Type = "capital"
           /\ YearOf(CostTable[r1].Unit) # YearOf(CostTable[r2].Unit)
           /\ CallsFor("add_capital_item", CostTable[r1]) # {}
           /\ Rescaled(CostTable[r1], CEPCI) # CostTable[r1].val
           /\ Rescaled(CostTable[r1], CEPCI) # Rescaled(CostTable[r1], CPI)
    /\ \E r \in 1..Len(CostTable) :
           /\ CallsFor("add_fixed_cost", CostTable[r]) # {}
           /\ Rescaled(CostTable[r], CPI) # CostTable[r].val

Solved == CallsOf({"solve_price"}) # {}
Assumptions == config.params["financial_assumptions"]
CoreNames ==
    {"commodity", "capacity", "maintenance", "analysis start year", "operating life",
     "installation months", "installation cost", "non depr assets",
     "end of proj sale non depr assets", "demand rampup", "long term utilization",
     "credit card fees", "sales tax", "license and permit", "rent",
     "property tax and insurance", "admin expense", "sell undepreciated cap",
     "tax losses monetized", "general inflation rate", "debt type", "cash onhand"}
\* the value the engine holds for a parameter: that of its last set_params
LastSet(name) ==
    CHOOSE i \in CallsOf({"set_params"}) :
        /\ pf_calls[i].name = name
        /\ \A j \in CallsOf({"set_params"}) : pf_calls[j].name = name => j <= i
Held(name) == pf_calls[LastSet(name)].val

\* C18: when solve_price is called, the entries of financial_assumptions
\* were the first parameters set on the engine, in their order and with
\* their values, every core parameter was set after them, and a parameter
\* named in both holds the core's value: capacity is plant_capacity_mtpy / 365
\* and the general inflation rate is gen_inflation.
C18_AssumptionsFirstCoreWins ==
    Solved =>
        /\ \A i \in 1..Len(Assumptions) :
               /\ pf_calls[i + 1].op = "set_params"
               /\ pf_calls[i + 1].name = Assumptions[i][1]
               /\ pf_calls[i + 1].val = Assumptions[i][2]
        /\ \A j \in CallsOf({"set_params"}) :
               j > Len(Assumptions) + 1 => pf_calls[j].name \in CoreNames
        /\ \A n \in CoreNames : \E j \in CallsOf({"set_params"}) :
               j > Len(Assumptions) + 1 /\ pf_calls[j].name = n
        /\ \A i \in 1..Len(Assumptions) :
               Assumptions[i][1] \in CoreNames => LastSet(Assumptions[i][1]) > Len(Assumptions) + 1
        /\ Held("capacity") = RDiv(config.params["plant_capacity_mtpy"], RInt(365))
        /\ Held("general inflation rate") = config.params["gen_inflation"]

\* the engine was solved after assumptions that name capacity and the general
\* inflation rate with values other than the core's
C18_CollidingAssumptionsSolved ==
    /\ Solved
    /\ \E i, j \in 1..Len(Assumptions) :
           /\ Assumptions[i][1] = "capacity" /\ Assumptions[i][2] # Held("capacity")
           /\ Assumptions[j][1] = "general inflation rate"
           /\ Assumptions[j][2] # Held("general inflation rate")

\* the performance row each feedstock takes its usage from
UsageRow ==
    [n \in {"Raw Water Withdrawal", "Lime", "Carbon", "Iron Ore", "Hydrogen", "Natural Gas",
            "Electricity", "Slag Disposal"} |->
        CASE n = "Carbon" -> "Carbon (Coke)"
          [] n = "Slag Disposal" -> "Slag"
          [] OTHER -> n]
PerformanceOf(name) ==
    LET rows == config.performance.performances_df.rows
    IN  rows[CHOOSE i \in 1..Len(rows) : rows[i].Name = name].Model
FeedstockCallsOf(n) ==
    {i \in CallsOf({"add_feedstock"}) : pf_calls[i].name = config.product_selection \o ": " \o n}

\* C19: once the engine is populated, exactly eight feedstocks are
\* registered: water, lime, carbon, iron ore, hydrogen, natural gas,
\* electricity and slag disposal, each once and each with the usage of its
\* row of the performance table; hydrogen costs lcoh * 1000 and electricity
\* lcoe * 1000.
C19_EightFeedstocksWithUsage ==
    Populated =>
        /\ Cardinality(CallsOf({"add_feedstock"})) = 8
        /\ \A n \in DOMAIN UsageRow :
               /\ Cardinality(FeedstockCallsOf(n)) = 1
               /\ \A i \in FeedstockCallsOf(n) : pf_calls[i].usage = PerformanceOf(UsageRow[n])
        /\ \A i \in FeedstockCallsOf("Hydrogen") :
               pf_calls[i].cost = RMul(RInt(1000), config.params["lcoh"])
        /\ \A i \in FeedstockCallsOf("Electricity") :
               pf_calls[i].cost = RMul(RInt(1000), config.params["lcoe"])

\* the feedstocks were registered from a table whose usages all differ
C19_FeedstocksRegistered ==
    /\ Populated /\ pc = "fin:214"
    /\ \A n1, n2 \in DOMAIN UsageRow :
           n1 # n2 => PerformanceOf(UsageRow[n1]) # PerformanceOf(UsageRow[n2])
    /\ config.params["lcoh"] # config.params["lcoe"]

\* ------------------------------------------ cost main, owner's costs ----
\* the locals of main with the Land and Maintenance Materials coefficients and
\* the slag usage raised by one
OtherLandAndMonthlyInputs ==
    [cm EXCEPT
        !.tech_coeffs = [i \in DOMAIN @ |->
            IF @[i].Name \in {"Land", "Maintenance Materials"}
            THEN [@[i] EXCEPT !.val = RAdd(@, RInt(1))] ELSE @[i]],
        !.perf_coeffs = [@ EXCEPT !["Slag"] = RAdd(@, RInt(1))]]
\* the owner's costs of those inputs and a hydrogen price raised by one
OtherOwners ==
    Owners(OtherLandAndMonthlyInputs, config.plant_capacity_mtpy, RAdd(config.lcoh, RInt(1)))

\* C20: installation_cost is labor_cost_fivemonth + preproduction_cost +
\* fuel_consumables_60day_supply_cost + spare_parts_cost + misc_owners_costs,
\* where it is computed and where it is returned; with other inputs to
\* land_cost, maintenance materials, waste disposal and energy alone, those
\* four figures change and installation_cost does not.
C20_InstallationCostIsSumOfFive ==
    /\ "installation_cost" \in DOMAIN cm =>
           /\ cm.installation_cost =
                  AAdd(AAdd(cm.misc_owners_costs, cm.spare_parts_cost),
                       AAdd(cm.fuel_consumables_60day_supply_cost,
                            AAdd(cm.preproduction_cost, cm.labor_cost_fivemonth)))
           /\ OtherOwners.installation_cost = cm.installation_cost
           /\ OtherOwners.land_cost # cm.land_cost
           /\ OtherOwners.maintenance_materials_onemonth # cm.maintenance_materials_onemonth
           /\ OtherOwners.waste_disposal_onemonth # cm.waste_disposal_onemonth
           /\ OtherOwners.monthly_energy_cost # cm.monthly_energy_cost
    /\ IsCostTuple(model_outputs) =>
           model_outputs.items[16] =
               AAdd(AAdd(model_outputs.items[15], model_outputs.items[13]),
                    AAdd(cm.fuel_consumables_60day_supply_cost,
                         AAdd(cm.preproduction_cost, model_outputs.items[8])))

\* cost main has returned an installation cost with five non-zero terms
C20_InstallationCostReturned ==
    /\ IsCostTuple(model_outputs)
    /\ \A t \in {cm.labor_cost_fivemonth, cm.preproduction_cost,
                 cm.fuel_consumables_60day_supply_cost, cm.spare_parts_cost,
                 cm.misc_owners_costs} : t # Amt(RInt(0))
    /\ cm.land_cost # Amt(RInt(0))

\* ------------------------------------------- finance main, the land ----
CostRow(name) == CostTable[CHOOSE r \in 1..Len(CostTable) : CostTable[r].Name = name]

\* C21: when solve_price is called the engine holds the table's land cost as
\* its non-depreciable assets, sold at the end of the project for
\* land_cost * (1 + gen_inflation) ** plant_life; the installation cost it
\* holds is the table's installation cost alone, marked non-depreciable, and
\* the land is not a capital item.
C21_LandIsNonDepreciableAsset ==
    Solved =>
        /\ Held("non depr assets") = CostRow("Land cost").val
        /\ Held("end of proj sale non depr assets") =
               RMul(CostRow("Land cost").val,
                    RPow(RAdd(RInt(1), config.params["gen_inflation"]),
                         RInt(config.params["plant_life"])))
        /\ Held("installation cost").value = CostRow("Installation cost").val
        /\ Held("installation cost").depreciable = FALSE
        /\ CallsFor("add_capital_item", CostRow("Land cost")) = {}
        /\ \A i \in CallsOf({"add_capital_item"}) : pf_calls[i].cost # CostRow("Land cost").val

\* the engine was solved with a land cost that is neither zero nor the
\* installation cost and grows until the sale
C21_LandCapitalized ==
    /\ Solved
    /\ CostRow("Land cost").val # RInt(0)
    /\ CostRow("Land cost").val # CostRow("Installation cost").val
    /\ Held("end of proj sale non depr assets") # Held("non depr assets")

\* ------------------------------------------- cost main, consumables ----
NonFuelUsages == {cm.perf_coeffs[n] : n \in NonFuelConsumables}
NonFuelPerTonne ==
    RAdd(RMul(cm.perf_coeffs["Reformer Catalyst"], cm.top_down_year["Reformer Catalyst"]),
    RAdd(RMul(cm.perf_coeffs["Iron Ore"], cm.top_down_year["Iron Ore Pellets"]),
    RAdd(RMul(cm.perf_coeffs["Carbon (Coke)"], cm.top_down_year["Carbon"]),
    RAdd(RMul(cm.perf_coeffs["Lime"], cm.top_down_year["Lime"]),
         RMul(cm.perf_coeffs["Raw Water Withdrawal"], cm.top_down_year["Raw Water"])))))

\* C22: once the owner's costs are computed, non_fuel_consumables_onemonth is
\* the capacity times the summed usage * price of the five non-fuel
\* consumables over 12, and the 60-day supply cost is that * 12 / 365 * 60;
\* when all five usage rates are zero both are 0, nothing is raised and the
\* sixteen outputs are returned with 0 as the tenth.
C22_SixtyDaySupplyFromOneMonth ==
    /\ "fuel_consumables_60day_supply_cost" \in DOMAIN cm =>
           /\ cm.non_fuel_consumables_onemonth =
                  Amt(RDiv(RMul(config.plant_capacity_mtpy, NonFuelPerTonne), RInt(12)))
           /\ cm.fuel_consumables_60day_supply_cost =
                  AScale(RInt(60), AScale(R(12, 365), cm.non_fuel_consumables_onemonth))
           /\ NonFuelUsages = {RInt(0)} =>
                  /\ cm.non_fuel_consumables_onemonth = Amt(RInt(0))
                  /\ cm.fuel_consumables_60day_supply_cost = Amt(RInt(0))
                  /\ err = ""
    /\ (pc = "returned" /\ entry = "run_iron_cost_model"
        /\ "fuel_consumables_60day_supply_cost" \in DOMAIN cm /\ NonFuelUsages = {RInt(0)}) =>
           /\ "costs_df" \in DOMAIN iron_cost
           /\ IsCostTuple(iron_cost.costs_df)
           /\ iron_cost.costs_df.items[10] = Amt(RInt(0))

\* the outputs were returned from tables without non-fuel consumables
C22_NoConsumablesReturned ==
    /\ IsCostTuple(model_outputs)
    /\ NonFuelUsages = {RInt(0)}
    /\ cm.fuel_consumables_60day_supply_cost = Amt(RInt(0))

\* ------------------------------------- cost main, maintenance labor ----
MaintenanceFraction ==
    LET r == CHOOSE i \in 1..Len(CoeffTableRows) : CoeffTableRows[i].Name = "Maintenance Labor Cost"
    IN  CoeffTableRows[r].val[cm.technology]
\* the same total as one capital item, and split into halves
OneItem == [n \in {"Plant"} |-> ItemsTotal(cm.capital_costs)]
Halves == [n \in {"First Half", "Second Half"} |-> RDiv(ItemsTotal(cm.capital_costs), RInt(2))]

\* C23: once the fixed O&M costs are computed, labor_cost_maintenance is the
\* maintenance-labor fraction of the technology times the sum of the capital
\* items, and the same amount results from any other split of that sum into
\* capital items.
C23_MaintenanceLaborOfTotal ==
    "labor_cost_maintenance" \in DOMAIN cm =>
        /\ cm.labor_cost_maintenance = Amt(RMul(MaintenanceFraction, ItemsTotal(cm.capital_costs)))
        /\ cm.labor_cost_maintenance = Amt(RMul(MaintenanceFraction, cm.total_plant_cost))
        /\ \A split \in {OneItem, Halves} :
               FixedOM(cm.tech_coeffs, cm.top_down_year, cm.Peters_coeffs,
                       config.plant_capacity_mtpy, TotalPlantCost(split)).labor_cost_maintenance
                   = cm.labor_cost_maintenance

\* maintenance labor was computed from two capital items of different cost
C23_MaintenanceLaborOfTwoItems ==
    /\ "labor_cost_maintenance" \in DOMAIN cm
    /\ cm.labor_cost_maintenance # Amt(RInt(0))
    /\ ItemCost(cm.capital_costs, "Shaft Furnace") # ItemCost(cm.capital_costs, "Cooling Tower")
    /\ ItemCost(cm.capital_costs, "Cooling Tower") # RInt(0)

\* --------------------------------------- cost main, the named rows ----
\* the rows the fixed O&M and owner's costs look up that the tables lack
MissingCoeffRows ==
    {n \in FixedOMRows \cup OwnersRows : \A i \in 1..Len(CoeffTableRows) : CoeffTableRows[i].Name # n}
MissingPerfRows == OwnersUsages \ DOMAIN tables.perf_coeff_df.val[config.technology]
RowsMissing ==
    /\ entry = "run_iron_cost_model"
    /\ ~config.cost_model["refit_coeffs"]
    /\ config.technology \in tables.coeff_df.columns
    /\ MissingCoeffRows \cup MissingPerfRows # {}

\* C24: with a named row missing from the coefficient table or from the
\* performance table of the technology, cost main never returns outputs, not
\* even partial ones, and run_iron_cost_model ends in a lookup error: an
\* IndexError for a coefficient row, a KeyError for a performance row.
C24_MissingRowRaisesLookupError ==
    RowsMissing =>
        /\ model_outputs = None /\ iron_cost = None /\ returned = None
        /\ pc # "returned"
        /\ pc = "raised" =>
               /\ err \in {"IndexError", "KeyError"}
               /\ MissingPerfRows = {} => err = "IndexError"
               /\ MissingCoeffRows = {} => err = "KeyError"

\* the lookup of the missing 'Hydrogen' usage was raised after the fixed O&M
\* costs had been computed
C24_MissingHydrogenRaised ==
    /\ RowsMissing /\ MissingPerfRows = {"Hydrogen"}
    /\ pc = "raised" /\ err = "KeyError"
    /\ "total_fixed_operating_cost" \in DOMAIN cm

\* ------------------------------------ full model, the caller's config ----
\* C25: no step of run_iron_full_model changes the caller's greenheart_config,
\* whether the run goes on, returns or raises; what the step writes, it writes
\* to the copy iron_config.
C25_CallerConfigNeverMutated ==
    [][entry = "run_iron_full_model" => greenheart_config' = greenheart_config]_vars

\* the run has ended with the injected fields and the defaulted model paths
\* in the copy and not in the caller's config
C25_CopyModifiedCallerIntact ==
    /\ entry = "run_iron_full_model" /\ pc \in {"raised", "returned"}
    /\ "cost_year" \in DOMAIN iron_config.finances
    /\ "cost_year" \notin DOMAIN greenheart_config.iron.finances
    /\ iron_config.performance_model # greenheart_config.iron.performance_model
    /\ iron_config.cost_model # greenheart_config.iron.cost_model

\* ------------------------------------- finance main, the round trip ----
\* the amounts of the cost table and the costs registered from them
TableAmounts == {CostTable[r].val : r \in 1..Len(CostTable)}
Registered == {pf_calls[i].cost : i \in CallsOf({"add_capital_item", "add_fixed_cost"})}

RLess(a, b) == a.n * b.d < b.n * a.d
ScaleCapacities == {RInt(r * r) : r \in 1..(MaxCapacityRoot + 3)}
CostPerUnit(lin, exp, capacity) == RDiv(CapitalCost(lin, exp, capacity), capacity)

\* C27: for every capital item costed in precomputed mode whose linear
\* coefficient is positive and whose exponent b has 0 < b < 1, the cost per
\* unit capacity is strictly smaller at the larger of any two capacities:
\* between the computed cost at the plant's capacity and the cost at any
\* other capacity, and between any two capacities c1 < c2.
C27_CostPerCapacityDecreases ==
    Precomputed =>
        \A name \in DOMAIN cm.capital_costs :
            \A i \in CapitalRowsOf(name, "lin"), j \in CapitalRowsOf(name, "exp") :
                LET lin == CoeffTableRows[i].val[config.technology]
                    b == CoeffTableRows[j].val[config.technology]
                    c == config.plant_capacity_mtpy
                    computed == RDiv(cm.capital_costs[name], c)
                IN  (RLess(RInt(0), lin) /\ RLess(RInt(0), b) /\ RLess(b, RInt(1))) =>
                        /\ \A c2 \in ScaleCapacities :
                               /\ RLess(c, c2) => RLess(CostPerUnit(lin, b, c2), computed)
                               /\ RLess(c2, c) => RLess(computed, CostPerUnit(lin, b, c2))
                        /\ \A c1 \in ScaleCapacities, c2 \in ScaleCapacities :
                               RLess(c1, c2) =>
                                   RLess(CostPerUnit(lin, b, c2), CostPerUnit(lin, b, c1))

\* an item with a positive linear coefficient and exponent 1/2 was costed at
\* a capacity that has smaller and larger capacities to compare with
C27_SublinearItemCosted ==
    /\ Precomputed
    /\ "Shaft Furnace" \in DOMAIN cm.capital_costs
    /\ \E i \in CapitalRowsOf("Shaft Furnace", "lin"), j \in CapitalRowsOf("Shaft Furnace", "exp") :
           /\ RLess(RInt(0), CoeffTableRows[i].val[config.technology])
           /\ CoeffTableRows[j].val[config.technology] = R(1, 2)
    /\ \E c1 \in ScaleCapacities, c2 \in ScaleCapacities :
           RLess(c1, config.plant_capacity_mtpy) /\ RLess(config.plant_capacity_mtpy, c2)

\* ------------------------------------ cost main, refit to completion ----
\* C28: in refit mode, once the capital items are costed, the technology
\* coefficient table, the performance coefficient table and the Peters
\* coefficients are all defined when the fixed O&M section starts, and the
\* run ends by returning the sixteen outputs.
C28_RefitRunsToCompletion ==
    Refit =>
        /\ pc = "cost:126" => {"tech_coeffs", "perf_coeffs", "Peters_coeffs"} \subseteq DOMAIN cm
        /\ pc \in {"raised", "returned"} =>
               /\ pc = "returned"
               /\ IsCostTuple(model_outputs)

\* --------------------------------------- the attributes the mains read ----
CostMainReads == {"technology", "operational_year", "plant_capacity_mtpy", "lcoh", "cost_model"}
FinanceMainReads == {"product_selection", "params", "performance", "cost", "site"}
InCostMain == pc \in {"cost:26", "cost:35", "cost:113", "cost:126", "cost:148", "cost:206"}
InFinanceMain ==
    pc \in {"fin:12", "fin:31", "fin:60", "fin:67", "fin:71", "fin:86", "fin:122", "fin:139",
            "fin:157", "fin:214", "fin:224", "fin:225", "fin:226", "fin:228"}
IsA(class) == "class" \in DOMAIN config /\ config.class = class

\* C29: while cost main runs on an IronCostModelConfig the config has every
\* attribute cost main reads, while finance main runs on an
\* IronFinanceModelConfig it has every attribute finance main reads, and a
\* run on either class never ends in an AttributeError.
C29_ConfigHasAttributesRead ==
    /\ (IsA("IronCostModelConfig") /\ InCostMain) => CostMainReads \subseteq DOMAIN config
    /\ (IsA("IronFinanceModelConfig") /\ InFinanceMain) => FinanceMainReads \subseteq DOMAIN config
    /\ (IsA("IronCostModelConfig") \/ IsA("IronFinanceModelConfig")) =>
           ~(pc = "raised" /\ err = "AttributeError")

\* ------------------------------------ the cost outputs as a cost table ----
\* a finance config that holds the outputs of the cost stage
FinanceConfigOf(cost) ==
    [(CHOOSE c \in FinanceConfigs : "product_selection" \in DOMAIN c) EXCEPT !.cost = cost]

\* C30: what run_iron_cost_model stores in costs_df from the return of the
\* Rosner cost model is a table with the columns Type, Unit and the site's
\* name and with an 'Installation cost' and a 'Land cost' row, which the
\* table lookups of finance main accept.
C30_CostOutputsAreCostTable ==
    (/\ entry = "run_iron_cost_model" /\ iron_cost # None
     /\ config.model["model_fp"] = RosnerCost) =>
        /\ iron_cost.costs_df.type = "DataFrame"
        /\ {"Type", "Unit", config.site["name"]} \subseteq iron_cost.costs_df.columns
        /\ HasRow(iron_cost.costs_df, "Installation cost")
        /\ HasRow(iron_cost.costs_df, "Land cost")
        /\ FinanceLookupError(FinanceConfigOf(iron_cost)) = ""

====
